---- MODULE Spec2Model ----
(***************************************************************************)
(* A model of the demystify deduction engine: the compiled puzzle          *)
(* (PuzzleParse), the SAT core, the PuzzleSolver's known-literal list and  *)
(* provable-literal cache, the MUS finders and the PuzzlePlanner loops.    *)
(*                                                                         *)
(* SAT literals are non-zero integers in IPASIR form (the negation of l is *)
(* -l).  The SAT solver itself is an external collaborator: a solve call   *)
(* answers by the models of the clause database, may return any unsat      *)
(* subset of the assumptions as its core, and may hit the conflict limit.  *)
(***************************************************************************)
EXTENDS Integers, Sequences, FiniteSets, TLC

VARIABLES
    puzzle,            \* PuzzleSolver.puzzleparse: which compiled puzzle is loaded
    only_assignments,  \* PuzzleSolver.solver_config.only_assignments
    debug_build,       \* whether debug_assert! is compiled in
    knownlits,         \* PuzzleSolver.knownlits: Vec<Lit>
    tosolvelits,       \* PuzzleSolver.tosolvelits: Option<BTreeSet<Lit>>
    planner,           \* the PuzzlePlanner that owns the solver: built, config, and
                       \* the history of its construction (known0, limited)
    pc,                \* position of the running planner loop, "idle", or "panicked"
    solvesteps,        \* quick_solve_impl: the steps emitted so far
    mus_dict,          \* a MusDict on its own: its map `muses`
    satcore,           \* a SatCore on its own: the unit clauses added to its solver
                       \* on top of cnf, and its set `fixed`
    last               \* the last operation: its name, arguments and result

vars == <<puzzle, only_assignments, debug_build, knownlits, tosolvelits,
          planner, pc, solvesteps, mus_dict, satcore, last>>

-----------------------------------------------------------------------------
(* Bounds of the model *)

\* callers add a deduced literal only while the known-literal list is shorter
\* than this (the planner's own loops are not bounded)
MaxKnown == 2

\* the largest size cap the MUS finders are called with
MaxMusSize == 1

\* the most literals in one call of the small-MUS driver
MaxDriverLits == 2

\* the most literals probed in one round of the driver run probe by probe
MaxRoundLits == 1

\* the SAT variables of the litmaps PuzzleParse::finalise is run on
MaxParseVar == 3

\* FindVarConnections: the SAT variables, the clauses and the literals of a
\* clause of the clause lists it is run on
MaxScopeVar == 3

MaxScopeClauses == 2

MaxScopeLen == 2

\* callers add a literal that was not deduced only while the known-literal list
\* is shorter than this
MaxHinted == 1

\* the most solves that hit the conflict limit during one scan for MUSes
MaxLimits == 1

\* the most steps quick_solve is followed for
MaxSteps == 4

\* the largest mus_mult_step, mus_add_step and base_size_mus of the MusConfigs the
\* loop of the driver is run round by round on, and the largest MUS a round finds
MaxMultStep == 3

MaxAddStep == 2

MaxBase == 2

MaxFound == 2

\* the most pairs (literal, MUS) added to one MusDict in any order
MaxAdded == 4

\* the values of the REVEAL source variable of the DIMACS files that are compiled
MaxRevealVal == 2

-----------------------------------------------------------------------------
(* Generic helpers *)

Neg(l) == 0 - l

Abs(l) == IF l < 0 THEN 0 - l ELSE l

Range(seq) == {seq[i] : i \in 1..Len(seq)}

Contains(seq, x) == \E i \in 1..Len(seq) : seq[i] = x

None == [some |-> FALSE, val |-> {}]

Some(v) == [some |-> TRUE, val |-> v]

Min(S) == CHOOSE x \in S : \A y \in S : x <= y

\* `let v = ...;` followed by the code F that uses v
With(v, F(_)) == F(v)

\* rustsat's Lit orders by variable index, the positive literal first
LitIdx(l) == 2 * (Abs(l) - 1) + (IF l < 0 THEN 1 ELSE 0)

RECURSIVE SortedLits(_)
\* iteration order of a BTreeSet<Lit>
SortedLits(S) ==
    IF S = {} THEN <<>>
    ELSE LET m == CHOOSE x \in S : \A y \in S : LitIdx(x) <= LitIdx(y)
         IN <<m>> \o SortedLits(S \ {m})

-----------------------------------------------------------------------------
(* The compiled puzzle: PuzzleParse *)

PuzVar(name, indices) == [name |-> name, indices |-> indices]

\* PuzLit::new_eq(VarValPair::new(var, val))
PuzLit_new_eq(var, val) == [var |-> var, val |-> val, equal |-> TRUE]

\* PuzLit::new_neq(VarValPair { var, val })
PuzLit_new_neq(var, val) == [var |-> var, val |-> val, equal |-> FALSE]

PuzLit_neg(p) == [p EXCEPT !.equal = ~p.equal]

\* EPrimeAnnotations: $#VAR x, $#VAR y, $#CON c, $#REVEAL x r
eprime_vars == {"x", "y"}

eprime_auxvars == {}

\* the puzzle "cake" declares the r[1,v] as constraints ($#CON r), no REVEAL
eprime_cons == IF puzzle = "cake" THEN {"c", "r"} ELSE {"c"}

eprime_reveal == [n \in (IF puzzle = "cake" THEN {} ELSE {"x"}) |-> "r"]

eprime_reveal_values == {eprime_reveal[n] : n \in DOMAIN eprime_reveal}

\* the "c Var '<name>' direct represents '<value>' with '<satlit>'" lines:
\* x[1] in {1,2,3} on SAT variables 1..3, y[1] in {1,2} on the single SAT
\* variable 4, r[1,v] in {0,1} on 5..7 and c[i] in {0,1} on 8..10
DimacsDirect ==
    {<<PuzLit_new_eq(PuzVar(t[1], t[2]), t[3]), t[4]>> : t \in
        {<<"x", <<1>>, 1, 1>>,
         <<"x", <<1>>, 2, 2>>,
         <<"x", <<1>>, 3, 3>>,
         <<"y", <<1>>, 1, 4>>,
         <<"y", <<1>>, 2, -4>>,
         <<"r", <<1, 1>>, 1, 5>>,
         <<"r", <<1, 1>>, 0, -5>>,
         <<"r", <<1, 2>>, 1, 6>>,
         <<"r", <<1, 2>>, 0, -6>>,
         <<"r", <<1, 3>>, 1, 7>>,
         <<"r", <<1, 3>>, 0, -7>>,
         <<"c", <<1>>, 1, 8>>,
         <<"c", <<1>>, 0, -8>>,
         <<"c", <<2>>, 1, 9>>,
         <<"c", <<2>>, 0, -9>>,
         <<"c", <<3>>, 1, 10>>,
         <<"c", <<3>>, 0, -10>>}}

\* litmap as read_dimacs leaves it
litmap_read ==
    With(DimacsDirect,
         LAMBDA direct : [p \in {d[1] : d \in direct} |->
                             (CHOOSE d \in direct : d[1] = p)[2]])

\* finalise that leaves the litmap as it was read
finalise_litmap_no_neg(read) == read

\* PuzzleParse::finalise: `for (lit, val) in &self.litmap` inserts the negation
\* of every problem literal read
finalise_litmap(read) ==
    [p \in DOMAIN read \cup {PuzLit_neg(q) : q \in DOMAIN read} |->
        IF p \in DOMAIN read THEN read[p] ELSE Neg(read[PuzLit_neg(p)])]

\* PuzzleParse::finalise: litmap gets the negation of every problem literal
litmap == finalise_litmap(litmap_read)

\* PuzzleParse::finalise: `for (lit, val) in &self.litmap` collects the PuzLits
\* of each Lit
finalise_invlitmap(lm) ==
    [l \in {lm[p] : p \in DOMAIN lm} |-> {p \in DOMAIN lm : lm[p] = l}]

\* PuzzleParse::finalise: the inverse of litmap, a set of PuzLits per Lit
invlitmap == finalise_invlitmap(litmap)

\* every literal of the map taken for a literal of the named variables
role_lits_all(lm, names) == {lm[p] : p \in DOMAIN lm}

\* PuzzleParse::finalise: the literals of the variables with one of `names`
\* (varset_lits for eprime.vars, auxset_lits for eprime.auxvars)
role_lits(lm, names) == {lm[p] : p \in {q \in DOMAIN lm : q.var.name \in names}}

\* PuzzleParse::finalise on the litmap `read` with the annotations `eprime`:
\* None when it bails, else the litmap and the literals of each role. One
\* constraint name per CON variable, so no `CON name used twice`
finalise(eprime, read) ==
    IF \E key \in DOMAIN read :
           PuzLit_neg(key) \in DOMAIN read /\ read[PuzLit_neg(key)] # Neg(read[key])
        THEN None
    ELSE With(finalise_litmap(read),
              LAMBDA lm :
         With([v \in {p.var : p \in DOMAIN lm} |->
                  {p.val : p \in {q \in DOMAIN lm : q.var = v /\ q.equal}}],
              LAMBDA dm :
         With({v \in DOMAIN dm : v.name \in eprime.cons},
              LAMBDA convars :
         IF \/ \E p \in DOMAIN lm :
                   p.var.name \notin eprime.vars \cup eprime.auxvars \cup eprime.cons
                                       \cup eprime.reveal_values
            \/ \E v \in convars : dm[v] # {0, 1}
            \/ \E v, w \in convars :
                   v # w /\ lm[PuzLit_new_eq(v, 1)] = lm[PuzLit_new_eq(w, 1)]
             THEN None
             ELSE Some([litmap |-> lm,
                        varset_lits |-> role_lits(lm, eprime.vars),
                        auxset_lits |-> role_lits(lm, eprime.auxvars),
                        conset_lits |-> {lm[PuzLit_new_eq(v, 1)] : v \in convars}]))))

\* PuzzleParse::finalise: the domain of each variable
domainmap ==
    With(litmap,
         LAMBDA lm : [v \in {p.var : p \in DOMAIN lm} |->
                         {p.val : p \in {q \in DOMAIN lm : q.var = v /\ q.equal}}])

varset_lits ==
    With(litmap,
         LAMBDA lm : {lm[p] : p \in {q \in DOMAIN lm : q.var.name \in eprime_vars}})

varset_lits_neg ==
    With(litmap,
         LAMBDA lm : {lm[p] : p \in {q \in DOMAIN lm :
                                        q.var.name \in eprime_vars /\ ~q.equal}})

conset_lits ==
    {litmap[PuzLit_new_eq(v, 1)] : v \in {w \in DOMAIN domainmap : w.name \in eprime_cons}}

\* PuzzleParse::finalise: conset, the rendered name of each CON literal (the
\* template of the CON rendered with the indices of the variable)
conset ==
    With(litmap,
         LAMBDA lm :
             [l \in conset_lits |->
                 With(CHOOSE w \in {p.var : p \in DOMAIN lm} :
                          w.name \in eprime_cons /\ lm[PuzLit_new_eq(w, 1)] = l,
                      LAMBDA v : <<v.name, v.indices>>)])

\* PuzzleParse::finalise: invconset, from the rendered name back to the literal
invconset ==
    With(conset,
         LAMBDA names : [n \in {names[l] : l \in DOMAIN names} |->
                            CHOOSE l \in DOMAIN names : names[l] = n])

\* PuzzleParse::lit_to_con
lit_to_con(lit) == conset[lit]

\* PuzzleParse::lit_to_vars
lit_to_vars(lit) == invlitmap[lit]

\* PuzzleParse::direct_or_ordered_lit_to_varvalpair; no variable of the model has
\* an order encoding
direct_or_ordered_lit_to_varvalpair(lit) ==
    IF lit \in DOMAIN invlitmap
        THEN {[var |-> p.var, val |-> p.val] : p \in invlitmap[lit]}
        ELSE {}

\* the puzzles the model loads
Puzzles == {"little", "chain", "mines", "pair", "triple", "unsat"}

\* the clauses every puzzle shares: x[1] takes exactly one value
BaseClauses == {{1, 2, 3}, {-1, -2}, {-1, -3}, {-2, -3}}

\* PuzzleParse.satinstance: the clause database of each puzzle. A clause with -8,
\* -9 or -10 is a constraint that c[1], c[2] or c[3] switches on
\*   little: x # 3;  c1: x # 1;  c2: x = 2 => y = 1;  c3: y = 1 => x = 2
\*   chain:  c1: x # 1;  c2: x # 2;  c3: x = 3 => y = 2
\*   mines:  c1: x # 1;  c2: r[1,2] = 1 => y = 1;  c3: x # 3
\*   pair:   c1: x = 1 => y = 1;  c2: x = 1 => y = 2;  c3: x # 2
\*   triple: c1: y = 1 => x # 1;  c2: y = 1 => x # 2;  c3: y = 1 => x # 3
\*   unsat:  c1: x # 1;  c2: x # 2;  c3: x # 3
\*   cake:   c1: x # 1;  c2: x = 1 => y = 1;  c3: x = 1 => y = 2;
\*           r1: x # 3;  r2: y = 1;  r3: x = 2 => y = 1
\*   fork:   x # 3;  c1: x # 1;  c2: x = 1 => y = 1;  c3: x = 1 => y = 2
\*   hard:   c1: y = 1 (c2 and c3 hold no clause); any of its solves may hit
\*           the conflict limit
Cnf(p) ==
    BaseClauses \cup
    CASE p = "little" -> {{-3}, {-5}, {6}, {-7}, {-8, -1}, {-9, -2, 4}, {-10, -4, 2}}
      [] p = "chain"  -> {{-5}, {-6}, {7}, {-8, -1}, {-9, -2}, {-10, -3, -4}}
      [] p = "mines"  -> {{-5}, {-7}, {-8, -1}, {-9, -6, 4}, {-10, -3}}
      [] p = "pair"   -> {{-5}, {-6}, {7}, {-8, -1, 4}, {-9, -1, -4}, {-10, -2}}
      [] p = "triple" -> {{5}, {6}, {7}, {-8, -4, -1}, {-9, -4, -2}, {-10, -4, -3}}
      [] p = "unsat"  -> {{-5}, {-6}, {-7}, {-8, -1}, {-9, -2}, {-10, -3}}
      [] p = "cake"   -> {{-8, -1}, {-9, -1, 4}, {-10, -1, -4},
                          {-5, -3}, {-6, 4}, {-7, -2, 4}}
      [] p = "fork"   -> {{-3}, {-5}, {-6}, {-7}, {-8, -1}, {-9, -1, 4}, {-10, -1, -4}}
      [] p = "hard"   -> {{-5}, {-6}, {-7}, {-8, 4}}

SatVars == {Abs(l) : l \in DOMAIN invlitmap}

\* whether literal l is true in the assignment m (the set of true variables)
Holds(l, m) == IF l > 0 THEN l \in m ELSE Neg(l) \notin m

\* the literals true in the assignment m
TrueLits(m) == m \cup {Neg(v) : v \in SatVars \ m}

\* the models of each clause database, each model the set of its true literals:
\* a table of pairs <<puzzle, models>>
ModelsOf ==
    {<<p, {TrueLits(m) : m \in
              {a \in SUBSET SatVars : \A cl \in Cnf(p) : \E l \in cl : Holds(l, a)}}>> :
        p \in Puzzles \cup {"cake", "fork", "hard"}}

\* the models of the loaded puzzle's clause database
Models == (CHOOSE t \in ModelsOf : t[1] = puzzle)[2]

\* the SAT solver's answer on the clause database with `assumps` assumed or fixed
Sat(assumps) == \E m \in Models : assumps \subseteq m

-----------------------------------------------------------------------------
(* Orderings of the BTreeSet iterations that decide the order of knownlits *)

\* String order of the names the model uses
NameRank(n) == CASE n = "c" -> 1 [] n = "r" -> 2 [] n = "x" -> 3 [] n = "y" -> 4

RECURSIVE SeqLess(_, _)
\* Vec<i64> order: lexicographic
SeqLess(a, b) ==
    IF a = <<>> THEN b # <<>>
    ELSE IF b = <<>> THEN FALSE
    ELSE IF Head(a) # Head(b) THEN Head(a) < Head(b)
    ELSE SeqLess(Tail(a), Tail(b))

\* #[derive(Ord)] of PuzLit: variable name, indices, value, then the sign
PuzLitLess(a, b) ==
    IF a.var.name # b.var.name THEN NameRank(a.var.name) < NameRank(b.var.name)
    ELSE IF a.var.indices # b.var.indices THEN SeqLess(a.var.indices, b.var.indices)
    ELSE IF a.val # b.val THEN a.val < b.val
    ELSE (~a.equal) /\ b.equal

RECURSIVE SortedPuzLits(_)
\* iteration order of a BTreeSet<PuzLit>
SortedPuzLits(S) ==
    IF S = {} THEN <<>>
    ELSE LET m == CHOOSE x \in S : \A y \in S \ {x} : PuzLitLess(x, y)
         IN <<m>> \o SortedPuzLits(S \ {m})

RECURSIVE SortedInts(_)
\* iteration order of a BTreeSet<i64>
SortedInts(S) ==
    IF S = {} THEN <<>>
    ELSE <<Min(S)>> \o SortedInts(S \ {Min(S)})

-----------------------------------------------------------------------------
(* SatCore, as the PuzzleSolver calls it *)

\* SatCore::assumption_solve(known, lits): fix `known`, solve under `lits`;
\* TRUE when satisfiable
assumption_solve(known, lits) == Sat(Range(known) \cup lits)

-----------------------------------------------------------------------------
(* SatCore::quick_mus *)

\* SearchResult<Option<_>>: Err(SearchError::Limit), Ok(None), Ok(Some(v))
Limit == [err |-> TRUE, some |-> FALSE, val |-> {}]

OkNone == [err |-> FALSE, some |-> FALSE, val |-> {}]

OkSome(v) == [err |-> FALSE, some |-> TRUE, val |-> v]

\* SatCore::new(cnf): `solver` is given by the unit clauses added to it on top of
\* cnf
SatCore_new == [solver |-> {}, fixed |-> {}]

RECURSIVE fix_loop(_, _)
\* fix_values: `for &l in lits { if !fixed.contains(&l) { add_unit; insert } }`
fix_loop(c, lits) ==
    IF lits = <<>> THEN c
    ELSE fix_loop(IF Head(lits) \in c.fixed THEN c
                  ELSE [solver |-> c.solver \cup {Head(lits)},
                        fixed |-> c.fixed \cup {Head(lits)}],
                  Tail(lits))

\* SatCore::fix_values(lits) on the core c: the core it leaves
fix_values(c, lits) ==
    With(fix_loop(c, lits),
         LAMBDA c1 : IF Cardinality(c1.fixed) > Len(lits)
                         THEN fix_loop(SatCore_new, lits)
                         ELSE c1)

\* the assignments the solver has left: the models of the CNF (SatCore::new) that
\* agree with the unit clauses fix_values added
SolverModels(fixed) == {m \in Models : fixed \subseteq m}

\* a mention of the item `const CONFLICT_LIMIT: AtomicI64`: a `const` is
\* instantiated anew wherever it is named, so each mention is a new
\* AtomicI64::new(1000), and a store to it is lost with it
CONFLICT_LIMIT == 1000

\* a mention of the item `const CONFLICT_COUNT: AtomicI64`: a new AtomicI64::new(0)
CONFLICT_COUNT == 0

\* the count that an interrupted solve compares CONFLICT_COUNT.fetch_add(1) with
COUNT_THRESHOLD == 1000

\* do_solve_assumps after an interrupted solve: whether `count > 1000` holds of
\* the value fetch_add returned, so that the limit is multiplied and stored
limit_raised == CONFLICT_COUNT > COUNT_THRESHOLD

\* do_solve_assumps: the conflict limit it sets, CONFLICT_LIMIT.load(Relaxed)
set_limit == CONFLICT_LIMIT

\* SatCore::do_solve_assumps(solver, lits): the SolverResults the solver may
\* give; any solve may run out of its conflict budget
do_solve_assumps(solver, lits) ==
    {"Interrupted", IF Sat(solver \cup lits) THEN "Sat" ELSE "Unsat"}

\* raw_assumption_solve_with_core(lits) on a solver with the models `live`: None
\* when satisfiable, else any core the solver may report, a subset of the
\* assumptions that is itself unsatisfiable
raw_assumption_solve_with_core(live, lits) ==
    IF \E m \in live : lits \subseteq m THEN {None}
    ELSE {Some(k) : k \in {c \in SUBSET lits : \A m \in live : ~(c \subseteq m)}}

\* the quick_mus loop without its deletion test
quick_mus_no_deletion(live, lits, i, core, known_size_max) ==
    {OkSome({x \in core : Contains(lits, x)})}

RECURSIVE quick_mus_loop(_, _, _, _, _)
\* SatCore::quick_mus: the loop `for &lit in lits` from position i on, with the
\* current core and <<known_size, max_size>>; the set of results it may return
quick_mus_loop(live, lits, i, core, known_size_max) ==
    LET known_size == known_size_max[1]
        max_size == known_size_max[2]
    IN
    IF i > Len(lits) THEN {OkSome({x \in core : Contains(lits, x)})}
    ELSE IF lits[i] \notin core THEN quick_mus_loop(live, lits, i + 1, core, known_size_max)
    ELSE LET candidate == raw_assumption_solve_with_core(live, core \ {lits[i]}) IN
         IF None \in candidate
             THEN IF max_size.some /\ known_size + 1 > max_size.val
                      THEN {OkNone}
                      ELSE quick_mus_loop(live, lits, i + 1, core,
                                          <<known_size + 1, max_size>>)
             ELSE UNION {quick_mus_loop(live, lits, i + 1, found.val, known_size_max) :
                            found \in candidate}

\* SatCore::quick_mus(known, lits, max_size): every result it may return, the
\* conflict limit aside (any of its solves may also end in Err(Limit))
quick_mus(known, lits, max_size) ==
    With(SolverModels(fix_values(SatCore_new, known).solver),
         LAMBDA live :
             With(raw_assumption_solve_with_core(live, Range(lits)),
                  LAMBDA first :
                      IF None \in first THEN {OkNone}
                      ELSE UNION {quick_mus_loop(live, lits, 1, core.val,
                                                 <<0, max_size>>) :
                                     core \in first}))

-----------------------------------------------------------------------------
(* SatCore on its own: what each public operation makes of a SolverResult *)

\* SearchResult<bool>
OkBool(b) == [err |-> FALSE, some |-> b, val |-> {}]

\* the match of SatCore::assumption_solve(lits) on the SolverResult
assumption_solve_match(solve) ==
    CASE solve = "Sat" -> OkBool(TRUE)
      [] solve = "Unsat" -> OkBool(FALSE)
      [] solve = "Interrupted" -> Limit

\* the match of SatCore::assumption_solve_solution(lits) on the SolverResult: the
\* results it may return, the solver giving any solution it has
assumption_solve_solution_match(solver, lits, solve) ==
    CASE solve = "Sat" -> {OkSome(m) : m \in {a \in SolverModels(solver) : lits \subseteq a}}
      [] solve = "Unsat" -> {OkNone}
      [] solve = "Interrupted" -> {Limit}

\* raw_assumption_solve_with_core reporting an interrupted solve as satisfiable
raw_assumption_solve_with_core_unchecked(solver, lits, solve) ==
    CASE solve = "Unsat" ->
             {OkSome(k.val) :
                 k \in raw_assumption_solve_with_core(SolverModels(solver), lits)}
      [] OTHER -> {OkNone}

\* the match of SatCore::raw_assumption_solve_with_core(lits) on the SolverResult:
\* the results it may return, the solver giving any core it may report
raw_assumption_solve_with_core_match(solver, lits, solve) ==
    CASE solve = "Sat" -> {OkNone}
      [] solve = "Unsat" ->
             {OkSome(k.val) :
                 k \in raw_assumption_solve_with_core(SolverModels(solver), lits)}
      [] solve = "Interrupted" -> {Limit}

-----------------------------------------------------------------------------
(* PuzzleSolver: the operations on (knownlits, tosolvelits) *)

\* the solver's mutable fields; panicked records a panic raised inside an operation
SolverState == [knownlits |-> knownlits, tosolvelits |-> tosolvelits, panicked |-> FALSE]

puzlit_to_lit(puzlit) == litmap[puzlit]

lit_to_puzlit(lit) == invlitmap[lit]

\* is_currently_solvable with no literal fixed or assumed
is_currently_solvable_no_assumptions(s) == assumption_solve(<<>>, {})

is_currently_solvable(s) == assumption_solve(s.knownlits, conset_lits \cup Range(s.knownlits))

\* get_literals_to_try_solving without the only_assignments switch
get_literals_to_try_solving_all_lits(s) ==
    {lit \in varset_lits : ~(Contains(s.knownlits, lit) \/ Contains(s.knownlits, Neg(lit)))}

\* get_literals_to_try_solving with solver_config.only_assignments = oa
literals_to_try_solving(oa, s) ==
    {lit \in (IF oa THEN varset_lits_neg ELSE varset_lits) :
        ~(Contains(s.knownlits, lit) \/ Contains(s.knownlits, Neg(lit)))}

get_literals_to_try_solving(s) == literals_to_try_solving(only_assignments, s)

\* the computation of get_provable_varlits without its solve
compute_provable_unsolved(s) == {Neg(lit) : lit \in get_literals_to_try_solving(s)}

\* the set get_provable_varlits computes when the cache is empty
\* get_provable_varlits: the filter_map over the literals `lits` to try
provable_of(s, lits) ==
    With(conset_lits \cup Range(s.knownlits),
         LAMBDA litorig :
             {Neg(lit) : lit \in
                 {c \in lits :
                     /\ ~(Contains(s.knownlits, c) \/ Contains(s.knownlits, Neg(c)))
                     /\ ~assumption_solve(s.knownlits, litorig \cup {c})}})

compute_provable(s) == provable_of(s, get_literals_to_try_solving(s))

get_provable_varlits(s) ==
    IF ~s.tosolvelits.some
        THEN [s EXCEPT !.tosolvelits = Some(compute_provable(s))]
        ELSE s

\* the REVEAL literal of a positive PuzLit of a REVEAL source
reveal_target(l) ==
    PuzLit_new_eq(PuzVar(eprime_reveal[l.var.name], Append(l.var.indices, l.val)), 1)

\* add_known_lit_internal without the REVEAL lookup
reveal_loop_skipped(s, lits) == s

RECURSIVE reveal_loop(_, _)
\* add_known_lit_internal: the loop over the PuzLits of the added literal
reveal_loop(s, lits) ==
    IF lits = <<>> \/ s.panicked THEN s
    ELSE LET l == Head(lits) IN
         IF ~l.equal \/ l.var.name \notin DOMAIN eprime_reveal
             THEN reveal_loop(s, Tail(lits))
         ELSE IF reveal_target(l) \notin DOMAIN litmap
             THEN [s EXCEPT !.panicked = TRUE]
         ELSE reveal_loop([s EXCEPT !.knownlits = Append(@, litmap[reveal_target(l)]),
                                    !.tosolvelits = None],
                          Tail(lits))

\* the REVEAL literal of a positive PuzLit of a REVEAL source, under the
\* annotations `reveal`
reveal_target_in(reveal, l) ==
    PuzLit_new_eq(PuzVar(reveal[l.var.name], Append(l.var.indices, l.val)), 1)

RECURSIVE reveal_loop_on(_, _, _, _)
\* add_known_lit_internal: the loop over the PuzLits of the added literal, on a
\* PuzzleParse with the litmap lm and the annotations `reveal`
reveal_loop_on(lm, reveal, s, lits) ==
    IF lits = <<>> \/ s.panicked THEN s
    ELSE LET l == Head(lits) IN
         IF ~l.equal \/ l.var.name \notin DOMAIN reveal
             THEN reveal_loop_on(lm, reveal, s, Tail(lits))
         ELSE IF reveal_target_in(reveal, l) \notin DOMAIN lm
             THEN [s EXCEPT !.panicked = TRUE]
         ELSE reveal_loop_on(lm, reveal,
                             [s EXCEPT !.knownlits = Append(@, lm[reveal_target_in(reveal, l)]),
                                       !.tosolvelits = None],
                             Tail(lits))

\* add_known_lit_internal(lit) of a solver built on a PuzzleParse with the litmap
\* lm and the annotations `reveal`
add_known_lit_internal_on(lm, reveal, s, lit) ==
    reveal_loop_on(lm, reveal,
                   [s EXCEPT !.tosolvelits = IF @.some THEN Some(@.val \ {lit}) ELSE @,
                             !.knownlits = Append(@, lit)],
                   SortedPuzLits(finalise_invlitmap(lm)[lit]))

\* add_known_lit_internal without the removal from the cache
add_known_lit_internal_cache_kept(s, lit) ==
    reveal_loop([s EXCEPT !.knownlits = Append(@, lit)], SortedPuzLits(lit_to_puzlit(lit)))

\* add_known_lit_internal assigning the list instead of pushing onto it
add_known_lit_internal_assigned(s, lit) ==
    reveal_loop([s EXCEPT !.tosolvelits = IF @.some THEN Some(@.val \ {lit}) ELSE @,
                          !.knownlits = <<lit>>],
                SortedPuzLits(lit_to_puzlit(lit)))

add_known_lit_internal(s, lit) ==
    reveal_loop([s EXCEPT !.tosolvelits = IF @.some THEN Some(@.val \ {lit}) ELSE @,
                          !.knownlits = Append(@, lit)],
                SortedPuzLits(lit_to_puzlit(lit)))

\* add_known_lit_unchecked without its loop over the domain
domain_loop_skipped(s, puzlit, domain) == s

RECURSIVE domain_loop(_, _, _)
\* add_known_lit_unchecked: `for d in domain`, for the positive PuzLit puzlit
domain_loop(s, puzlit, domain) ==
    IF domain = <<>> \/ s.panicked THEN s
    ELSE With(puzlit_to_lit(PuzLit_new_neq(puzlit.var, Head(domain))),
              LAMBDA new_lit :
                  IF Head(domain) # puzlit.val /\ ~Contains(s.knownlits, new_lit)
                      THEN domain_loop(add_known_lit_internal(s, new_lit), puzlit,
                                       Tail(domain))
                      ELSE domain_loop(s, puzlit, Tail(domain)))

RECURSIVE puzlit_loop(_, _)
\* add_known_lit_unchecked: `for puzlit in puzlit_set`
puzlit_loop(s, puzlits) ==
    IF puzlits = <<>> \/ s.panicked THEN s
    ELSE LET puzlit == Head(puzlits) IN
         IF puzlit.equal
             THEN puzlit_loop(domain_loop(s, puzlit, SortedInts(domainmap[puzlit.var])),
                              Tail(puzlits))
             ELSE puzlit_loop(s, Tail(puzlits))

add_known_lit_unchecked(s, lit) ==
    IF Contains(s.knownlits, lit) THEN s
    ELSE puzlit_loop(add_known_lit_internal(s, lit), SortedPuzLits(lit_to_puzlit(lit)))

\* add_known_lit without its early return for a literal that is already known
add_known_lit_no_early_return(s, lit) ==
    IF debug_build
        THEN With(get_provable_varlits(s),
                  LAMBDA s1 :
                      IF lit \in s1.tosolvelits.val \/ ~is_currently_solvable(s1)
                          THEN add_known_lit_unchecked(s1, lit)
                          ELSE [s1 EXCEPT !.panicked = TRUE])
        ELSE add_known_lit_unchecked(s, lit)

add_known_lit(s, lit) ==
    IF Contains(s.knownlits, lit) THEN s
    ELSE IF debug_build
        THEN With(get_provable_varlits(s),
                  LAMBDA s1 :
                      IF lit \in s1.tosolvelits.val \/ ~is_currently_solvable(s1)
                          THEN add_known_lit_unchecked(s1, lit)
                          ELSE [s1 EXCEPT !.panicked = TRUE])
        ELSE add_known_lit_unchecked(s, lit)

add_not_provable_known_lit(s, lit) ==
    [add_known_lit_unchecked(s, lit) EXCEPT !.tosolvelits = None]

-----------------------------------------------------------------------------
(* PuzzleSolver: the MUS finders *)

\* Option<i64>::map(|x| x + 1)
MapPlusOne(max_size) == IF max_size.some THEN Some(max_size.val + 1) ELSE max_size

\* the orders shuffled.shuffle(..) may leave the CON literals in
RECURSIVE Shuffles(_)
Shuffles(S) ==
    IF S = {} THEN {<<>>}
    ELSE UNION {{<<x>> \o q : q \in Shuffles(S \ {x})} : x \in S}

\* m.into_iter().filter(|x| conset_lits.contains(x)) on the results of quick_mus
FilterCon(results) ==
    {IF r.some THEN OkSome(r.val \cap conset_lits) ELSE r : r \in results}

\* PuzzleSolver::get_var_mus_quick(lit, max_size): the results it may return
get_var_mus_quick(s, lit, max_size) ==
    {Limit} \cup
    FilterCon(quick_mus(s.knownlits, Append(SortedLits(conset_lits), Neg(lit)),
                        MapPlusOne(max_size)))

RECURSIVE Pow(_, _)
Pow(a, k) == IF k = 0 THEN 1 ELSE a * Pow(a, k - 1)

\* get_var_mus_slice: `trims`, the number of shuffled CON literals dropped.
\* percentage_reduce is the fraction num/den clamped to [0.4, 0.9999]; the cast
\* of ln(0.8) / ln(percentage_reduce) to i64 is the largest k with
\* percentage_reduce^k >= 0.8; the result is clamped to [0, len / 2]
slice_trims(max_size, len) ==
    LET sized == max_size.some /\ max_size.val > 0
        num0 == IF sized THEN len - max_size.val ELSE 2
        den0 == IF sized THEN len ELSE 5
        low == num0 <= 0 \/ 5 * num0 < 2 * den0
        high == 10000 * num0 > 9999 * den0
        num == IF low THEN 2 ELSE IF high THEN 9999 ELSE num0
        den == IF low THEN 5 ELSE IF high THEN 10000 ELSE den0
    IN IF len = 0 THEN 0
       ELSE CHOOSE k \in 0..(len \div 2) :
               /\ 5 * Pow(num, k) >= 4 * Pow(den, k)
               /\ k = (len \div 2) \/ 5 * Pow(num, k + 1) < 4 * Pow(den, k + 1)

\* PuzzleSolver::get_var_mus_slice(lit, max_size): the results it may return
get_var_mus_slice(s, lit, max_size) ==
    {Limit} \cup
    UNION {FilterCon(quick_mus(s.knownlits,
                               Append(SubSeq(shuffled, slice_trims(max_size, Len(shuffled)) + 1,
                                             Len(shuffled)),
                                      Neg(lit)),
                               MapPlusOne(max_size))) :
              shuffled \in Shuffles(conset_lits)}

\* get_var_mus_cake: chunk i of the shuffled CON literals (positions from 0)
cake_chunk(shuffled, i, max_size) ==
    LET keep == {j \in 1..Len(shuffled) : (j - 1) % (max_size + 1) # i}
        F[j \in 0..Len(shuffled)] ==
            IF j = 0 THEN <<>>
            ELSE IF j \in keep THEN Append(F[j - 1], shuffled[j]) ELSE F[j - 1]
    IN F[Len(shuffled)]

\* get_var_mus_cake that gives up after the first chunk
cake_loop_first_chunk(s, lit, max_size, shuffled, i) ==
    FilterCon(quick_mus(s.knownlits,
                        Append(cake_chunk(shuffled, i, max_size), Neg(lit)),
                        Some(max_size + 1)))

RECURSIVE cake_loop(_, _, _, _, _)
\* get_var_mus_cake: `for chunk in conset_chunks` from chunk i on
cake_loop(s, lit, max_size, shuffled, i) ==
    IF i > max_size THEN {OkNone}
    ELSE With(quick_mus(s.knownlits,
                        Append(cake_chunk(shuffled, i, max_size), Neg(lit)),
                        Some(max_size + 1)),
              LAMBDA found :
                  FilterCon({r \in found : r.some})
                  \cup (IF OkNone \in found
                            THEN cake_loop(s, lit, max_size, shuffled, i + 1) ELSE {}))

\* PuzzleSolver::get_var_mus_cake(lit, max_size): the results it may return
get_var_mus_cake(s, lit, max_size) ==
    {Limit} \cup
    UNION {cake_loop(s, lit, max_size, shuffled, 0) : shuffled \in Shuffles(conset_lits)}

-----------------------------------------------------------------------------
(* PuzzleParse: the scope of each constraint (FindVarConnections) *)

\* the literals of the unit clauses of the clause database
UnitLits(cnf) == {l \in UNION cnf : {l} \in cnf}

\* FindVarConnections::new: the keys of lit_to_clauses
lit_to_clauses_keys(cnf) == (UNION cnf) \cup {Neg(l) : l \in UnitLits(cnf)}

\* FindVarConnections::new without its second loop, which blanks the literals
\* of unit clauses
lit_to_clauses_not_blanked(cnf, l) == UNION {cl \in cnf : l \in cl}

\* FindVarConnections::new: lit_to_clauses, the literals of the clauses that hold
\* l; blanked for the literals of unit clauses and their negations
lit_to_clauses(cnf, l) ==
    IF {l} \in cnf \/ {Neg(l)} \in cnf THEN {}
    ELSE UNION {cl \in cnf : l \in cl}

RECURSIVE get_connections_loop(_, _, _, _)
\* FindVarConnections::get_connections: `while let Some(todo_lit) = todo.pop()`
get_connections_loop(cnf, all_var_lits, todo, found) ==
    IF todo = {} THEN found
    ELSE With(CHOOSE x \in todo : TRUE,
              LAMBDA todo_lit :
                  With({Neg(l) : l \in lit_to_clauses(cnf, todo_lit)} \ found,
                       LAMBDA new :
                           get_connections_loop(
                               cnf, all_var_lits,
                               (todo \ {todo_lit}) \cup (new \ all_var_lits),
                               found \cup new)))

\* FindVarConnections::new(sat, all_var_lits).get_connections(con_lit), as a
\* set; cnf is the clause list of sat
get_connections(cnf, all_var_lits, con_lit) ==
    IF Neg(con_lit) \notin lit_to_clauses_keys(cnf) THEN {}
    ELSE get_connections_loop(cnf, all_var_lits, {Neg(con_lit), con_lit},
                              {con_lit, Neg(con_lit)})
             \cap all_var_lits

\* PuzzleParse::finalise: varlits_in_con
varlits_in_con(con_lit) ==
    With(Cnf(puzzle),
         LAMBDA cnf : With(varset_lits,
                           LAMBDA vl : get_connections(cnf, vl, con_lit)))

-----------------------------------------------------------------------------
(* PuzzleSolver: the size-0 and size-1 MUS finders *)

\* SearchResult<Vec<Vec<Lit>>> of get_var_mus_size_1, or the panic of its assert!
SzOk(v) == [status |-> "ok", val |-> v]

SzLimit == [status |-> "limit", val |-> <<>>]

SzPanic == [status |-> "panic", val |-> <<>>]

\* BTreeSet<Vec<Lit>> of one-literal vectors, in iteration order
SortedMuses(muses) ==
    With(SortedLits(UNION muses), LAMBDA q : [i \in 1..Len(q) |-> {q[i]}])

\* SatCore::assumption_solve_with_core(known, lits): fix `known`, solve under
\* `lits`; None when satisfiable, else a core
assumption_solve_with_core(known, lits) ==
    raw_assumption_solve_with_core(SolverModels(fix_values(SatCore_new, known).solver),
                                   lits)

\* get_var_mus_size_1_loop that records an unsatisfiable range without bisecting it
get_var_mus_size_1_loop_no_bisection(known, lit, count, lits, muses) ==
    IF lits = <<>> \/ None \in assumption_solve_with_core(known, Range(lits) \cup {Neg(lit)})
        THEN {[panic |-> FALSE, muses |-> muses]}
        ELSE {[panic |-> FALSE, muses |-> muses \cup {Range(lits)}]}

RECURSIVE get_var_mus_size_1_loop(_, _, _, _, _)
\* PuzzleSolver::get_var_mus_size_1_loop: the values of `muses` it may leave, and
\* whether its assert! fails
get_var_mus_size_1_loop(known, lit, count, lits, muses) ==
    IF lits = <<>> \/ (count.some /\ Cardinality(muses) >= count.val)
        THEN {[panic |-> FALSE, muses |-> muses]}
    ELSE With(assumption_solve_with_core(known, Range(lits) \cup {Neg(lit)}),
              LAMBDA solvable :
         IF None \in solvable THEN {[panic |-> FALSE, muses |-> muses]}
         ELSE IF Len(lits) = 1
             THEN {[panic |-> FALSE, muses |-> muses \cup {Range(lits)}]}
         ELSE UNION {
             LET early == Cardinality(core.val) = 2
                 mus == core.val \cap Range(lits)
                 mid == Len(lits) \div 2
             IN IF early /\ Cardinality(mus) # 1
                    THEN {[panic |-> TRUE, muses |-> muses]}
                    ELSE UNION {
                        IF l.panic THEN {l}
                        ELSE get_var_mus_size_1_loop(known, lit, count,
                                 SubSeq(lits, mid + 1, Len(lits)), l.muses) :
                        l \in get_var_mus_size_1_loop(known, lit, count,
                                 SubSeq(lits, 1, mid),
                                 IF early THEN muses \cup {mus} ELSE muses)} :
             core \in solvable})

\* PuzzleSolver::get_var_mus_size_1(lit, count): the results it may return. The
\* shuffle is seeded, one fixed order of the CON literals that the model leaves open
get_var_mus_size_1(s, lit, count) ==
    {SzLimit} \cup
    IF ~assumption_solve(s.knownlits, {Neg(lit)}) THEN {SzOk(<<{}>>)}
    ELSE UNION {
        LET mid == Len(shuffled) \div 2 IN
        {IF o.panic THEN SzPanic ELSE SzOk(SortedMuses(o.muses)) :
            o \in UNION {
                IF l.panic THEN {l}
                ELSE get_var_mus_size_1_loop(s.knownlits, lit, count,
                         SubSeq(shuffled, mid + 1, Len(shuffled)), l.muses) :
                l \in get_var_mus_size_1_loop(s.knownlits, lit, count,
                         SubSeq(shuffled, 1, mid), {})}} :
        shuffled \in Shuffles(conset_lits)}

\* PuzzleSolver::get_var_mus_size_1(lit, count) of demystify-lib: the same but for
\* `return Ok(vec![])` when the negation of lit is unsatisfiable
get_var_mus_size_1_lib(s, lit, count) ==
    IF ~assumption_solve(s.knownlits, {Neg(lit)}) THEN {SzLimit, SzOk(<<>>)}
    ELSE get_var_mus_size_1(s, lit, count)

\* PuzzleSolver::check_var_mus_size_0(lit): the answers it may give; a solve that
\* hits the conflict limit is treated as `no MUS`
check_var_mus_size_0(s, lit) ==
    {~assumption_solve(s.knownlits, {Neg(lit)}), FALSE}

\* PuzzleSolver::get_many_vars_mus_size_0(lits): the sets it may return, with at
\* most MaxLimits solves hitting the conflict limit
get_many_vars_mus_size_0(s, lits) ==
    With({x \in lits : TRUE \in check_var_mus_size_0(s, x)},
         LAMBDA all :
             {all \ missed : missed \in {m \in SUBSET all : Cardinality(m) <= MaxLimits}})

-----------------------------------------------------------------------------
(* MusDict and MusContext *)

\* the LitIdx of the literals of a BTreeSet<Lit>, in order
IdxSeq(S) == With(SortedLits(S), LAMBDA q : [i \in 1..Len(q) |-> LitIdx(q[i])])

\* the order of BTreeSet<Lit>: lexicographic
SetLess(A, B) == SeqLess(IdxSeq(A), IdxSeq(B))

\* MusContext::new(l, mus)
MusContext_new(l, mus) == [lits |-> {l}, mus |-> mus]

\* MusContext::new_multi_lit(lits, mus)
MusContext_new_multi_lit(lits, mus) == [lits |-> lits, mus |-> mus]

\* MusContext::new_with_more_lits(lits, mc)
MusContext_new_with_more_lits(lits, mc) == [lits |-> lits \cup mc.lits, mus |-> mc.mus]

\* MusContext::mus_len
mus_len(mc) == Cardinality(mc.mus)

\* the first element of a BTreeSet<MusContext> whose elements share their lits:
\* the least mus
FirstMus(S) == CHOOSE m \in S : \A o \in S \ {m} : SetLess(m, o)

\* MusDict::new(): a map from Lit to the set of the mus of its MusContexts
MusDict_new == [l \in {} |-> {}]

\* add_mus inserting a smaller MUS without clearing the entry first
add_mus_no_clear(md, lit, new_mus) ==
    IF lit \in DOMAIN md
        THEN IF Cardinality(new_mus) <= Cardinality(FirstMus(md[lit]))
                 THEN [md EXCEPT ![lit] = @ \cup {new_mus}]
                 ELSE md
        ELSE [l \in DOMAIN md \cup {lit} |-> IF l = lit THEN {new_mus} ELSE md[l]]

\* MusDict::add_mus(lit, new_mus)
add_mus(md, lit, new_mus) ==
    IF lit \in DOMAIN md
        THEN IF md[lit] = {} THEN [md EXCEPT ![lit] = {new_mus}]
             ELSE With(Cardinality(FirstMus(md[lit])),
                       LAMBDA len :
                           IF Cardinality(new_mus) < len
                               THEN [md EXCEPT ![lit] = {new_mus}]
                           ELSE IF Cardinality(new_mus) = len
                               THEN [md EXCEPT ![lit] = @ \cup {new_mus}]
                           ELSE md)
        ELSE [l \in DOMAIN md \cup {lit} |-> IF l = lit THEN {new_mus} ELSE md[l]]

\* MusDict::min
md_min(md) ==
    LET lens == {Cardinality(m) : m \in UNION {md[l] : l \in DOMAIN md}}
    IN IF lens = {} THEN None ELSE Some(Min(lens))

\* MusDict::min_lit
min_lit(md, lit) ==
    IF lit \in DOMAIN md /\ md[lit] # {}
        THEN Some(Cardinality(FirstMus(md[lit]))) ELSE None

RECURSIVE SortedMusSets(_)
\* iteration order of a BTreeMap keyed by BTreeSet<Lit>
SortedMusSets(S) ==
    IF S = {} THEN <<>>
    ELSE With(CHOOSE x \in S : \A y \in S \ {x} : SetLess(x, y),
              LAMBDA m : <<m>> \o SortedMusSets(S \ {m}))

\* merge_muscontexts keeping for each mus the lits of one of its MusContexts only
merge_muscontexts_first(v) ==
    With(SortedMusSets({mc.mus : mc \in v}),
         LAMBDA keys :
             [i \in 1..Len(keys) |->
                 CHOOSE mc \in v : mc.mus = keys[i]])

\* merge_muscontexts(v): one MusContext per mus, in the order of the mus
merge_muscontexts(v) ==
    With(SortedMusSets({mc.mus : mc \in v}),
         LAMBDA keys :
             [i \in 1..Len(keys) |->
                 MusContext_new_multi_lit(
                     UNION {mc.lits : mc \in {c \in v : c.mus = keys[i]}}, keys[i])])

-----------------------------------------------------------------------------
(* PuzzleSolver: the small-MUS search driver *)

\* MusConfig::default()
MusConfig_default ==
    [base_size_mus |-> 2, mus_add_step |-> 1, mus_mult_step |-> 2, repeats |-> 2,
     find_bigger |-> FALSE, strategy |-> "Dynamic"]

RECURSIVE add_found(_, _)
\* `for (k, v) in muses { md.add_mus(k, bts) }` over the pairs <<lit, mus>> found
add_found(md, found) ==
    IF found = {} THEN md
    ELSE LET f == CHOOSE x \in found : TRUE
         IN add_found(add_mus(md, f[1], f[2]), found \ {f})

\* what is left of a budget of calls that may hit the conflict limit after one
\* of them did; a negative budget is no bound at all
spend(budget) == IF budget > 0 THEN budget - 1 ELSE budget

\* the calls of one run of the driver that may hit the conflict limit: at most
\* MaxLimits, and any number on the puzzle "hard"
LimitBudget == IF puzzle = "hard" THEN -1 ELSE MaxLimits

RECURSIVE tiny_scan_limit_fails(_, _, _)
\* the scan for tiny muses with the results unwrapped instead of filtered: a call
\* that hits the conflict limit makes the driver panic
tiny_scan_limit_fails(table, lits, outs) ==
    IF lits = <<>> THEN outs
    ELSE LET x == Head(lits)
             results == (CHOOSE e \in table : e[1] = x)[2]
         IN tiny_scan_limit_fails(table, Tail(lits),
                UNION {
                    IF o.panic THEN {o}
                    ELSE UNION {
                        IF r.status = "panic" THEN {[o EXCEPT !.panic = TRUE]}
                        ELSE IF r.status = "limit"
                            THEN IF o.budget # 0
                                     THEN {[o EXCEPT !.budget = spend(@), !.panic = TRUE]}
                                     ELSE {}
                        ELSE IF r.val = <<>> THEN {o}
                        ELSE {[o EXCEPT !.found = @ \cup {<<x, r.val[1]>>}]} :
                        r \in results} :
                    o \in outs})

RECURSIVE tiny_scan(_, _, _)
\* the scan for tiny muses: get_var_mus_size_1(x, Some(1)) for each literal of
\* `lits`. table holds the results each literal's call may return; outs the
\* outcomes of the calls before: the pairs <<lit, mus>> found, what is left of the
\* budget of calls that hit the conflict limit, and whether a call panicked
tiny_scan(table, lits, outs) ==
    IF lits = <<>> THEN outs
    ELSE LET x == Head(lits)
             results == (CHOOSE e \in table : e[1] = x)[2]
         IN tiny_scan(table, Tail(lits),
                UNION {
                    IF o.panic THEN {o}
                    ELSE UNION {
                        IF r.status = "panic" THEN {[o EXCEPT !.panic = TRUE]}
                        ELSE IF r.status = "limit"
                            THEN IF o.budget # 0
                                     THEN {[o EXCEPT !.budget = spend(@)]}
                                     ELSE {}
                        ELSE IF r.val = <<>> THEN {o}
                        ELSE {[o EXCEPT !.found = @ \cup {<<x, r.val[1]>>}]} :
                        r \in results} :
                    o \in outs})

\* one probe of the driver's loop: the finder config.strategy picks when
\* best_mus_size holds `best`
strategy_call(s, config, x, best) ==
    With(IF config.find_bigger THEN best + 3 * 3 ELSE best,
         LAMBDA mus_test_size :
             With(IF config.strategy = "Dynamic"
                      THEN IF mus_test_size < 5 THEN "Cake" ELSE "Slice"
                      ELSE config.strategy,
                  LAMBDA strategy :
                      CASE strategy = "Slice" ->
                               get_var_mus_slice(s, x, Some(mus_test_size))
                        [] strategy = "Cake" -> get_var_mus_cake(s, x, mus_test_size)
                        [] strategy = "Quick" ->
                               get_var_mus_quick(s, x, Some(mus_test_size))))

\* a plain store in the place of fetch_min
fetch_store(best, len) == len

\* best_mus_size.fetch_min(y.len() as i64, Relaxed): the value it leaves
fetch_min(best, len) == IF len < best THEN len ELSE best

RECURSIVE probe_sizes(_, _, _, _)
\* the values best_mus_size may hold while the probes of one round run: the
\* round's mus_size and every smaller length of a MUS a probe may report
probe_sizes(s, config, lits, sizes) ==
    With({Cardinality(e[2].val) :
             e \in {c \in UNION {{<<t, r>> : r \in strategy_call(s, config, x, t)} :
                                    x \in lits, t \in sizes} :
                       c[2].some /\ Cardinality(c[2].val) < c[1]}},
         LAMBDA new : IF new \subseteq sizes THEN sizes
                      ELSE probe_sizes(s, config, lits, sizes \cup new))

RECURSIVE probe_round(_, _, _, _)
\* the probes of one round, `calls` the literal of each. table holds the results
\* a probe of a literal may return for each value of best_mus_size it may load;
\* outs the outcomes of the probes before: the MUSes found as triples
\* <<lit, best_mus_size loaded, mus>>, the values of best_mus_size the probes
\* loaded, and what is left of the budget of probes that hit the conflict limit
probe_round(table, calls, sizes, outs) ==
    IF calls = <<>> THEN outs
    ELSE LET x == Head(calls) IN
         probe_round(table, Tail(calls), sizes,
             UNION {UNION {UNION {
                 IF r.err
                     THEN IF o.budget # 0
                              THEN {[o EXCEPT !.budget = spend(@), !.used = @ \cup {t}]}
                              ELSE {}
                 ELSE IF r.some
                     THEN {[o EXCEPT !.found = @ \cup {<<x, t, r.val>>},
                                     !.used = @ \cup {t}]}
                 ELSE {[o EXCEPT !.used = @ \cup {t}]} :
                 r \in (CHOOSE e \in table : e[1] = x /\ e[2] = t)[3]} :
                 t \in sizes} :
                 o \in outs})

\* whether the probes can have loaded these values of best_mus_size: a value under
\* the round's mus_size is the length of a MUS that a probe which had loaded a
\* larger value reported (fetch_min)
probes_feasible(o, mus_size) ==
    \A t \in o.used :
        t = mus_size \/ \E f \in o.found : f[2] > t /\ Cardinality(f[3]) = t

\* i64::from(i32::MAX)
i32_MAX == 2147483647

\* an i64 target size: TLC computes in 32 bits, so a size above i32_MAX is
\* held as `over` with a value that many below i32_MAX that the probes can add
\* to it; the caps of the probes bind up to the number of CON literals only
MusSize(v) == [val |-> v, over |-> FALSE]

\* the growth of the target size left out: the next round has the size of this one
grow_keeps(config, mus_size) == mus_size

\* mus_size * config.mus_mult_step + config.mus_add_step, for steps and sizes
\* that are not negative
grow(config, mus_size) ==
    IF /\ config.mus_mult_step > 0
       /\ mus_size.val > (i32_MAX - config.mus_add_step) \div config.mus_mult_step
        THEN [val |-> i32_MAX - 3 * 3 - 1, over |-> TRUE]
        ELSE MusSize(mus_size.val * config.mus_mult_step + config.mus_add_step)

\* `met_target`: the smallest MUS of the dictionary is within the round's size
met_target(config, mus_min, mus_size) ==
    \/ mus_size.over
    \/ IF config.find_bigger THEN mus_min * 3 + 3 <= mus_size.val
                             ELSE mus_min <= mus_size.val

\* `if mus_size > i64::from(i32::MAX)`
hard_stop(mus_size) == mus_size.over

RECURSIVE driver_loop(_, _, _, _, _, _)
\* get_many_vars_small_mus_quick: its `loop` from the round of mus_size on. With
\* no literal to probe every round leaves md as it is, and the loop returns it
\* once mus_size has passed i32_MAX
driver_loop(s, config, lits, md, mus_size, budget) ==
    IF lits = {} THEN {md} ELSE
    With(probe_sizes(s, config, lits, {mus_size.val}),
         LAMBDA sizes :
    With(SortedLits(lits),
         LAMBDA sorted :
    UNION {
        With(add_found(md, {<<f[1], f[3]>> : f \in o.found}),
             LAMBDA md1 :
        With(md_min(md1),
             LAMBDA mus_min :
        IF \/ mus_min.some /\ met_target(config, mus_min.val, mus_size)
           \/ hard_stop(mus_size)
            THEN {md1}
            ELSE driver_loop(s, config, lits, md1, grow(config, mus_size),
                             o.budget))) :
        o \in {q \in probe_round(
                         {<<x, t, strategy_call(s, config, x, t)>> :
                             x \in lits, t \in sizes},
                         [i \in 1..(Len(sorted) * config.repeats) |->
                             sorted[((i - 1) \div config.repeats) + 1]],
                         sizes,
                         {[found |-> {}, used |-> {}, budget |-> budget]}) :
                  probes_feasible(q, mus_size.val)}}))

\* get_many_vars_small_mus_quick: the outcomes of its scan for tiny muses
tiny_scans(s, lits) ==
    tiny_scan({<<x, get_var_mus_size_1(s, x, Some(1))>> : x \in lits},
              SortedLits(lits),
              {[panic |-> FALSE, found |-> {}, budget |-> LimitBudget]})

\* the driver without its early return: the loop runs whatever the scan found
after_tiny_scan_no_return(s, lits, config, musdict, o) ==
    IF o.panic THEN {[panic |-> TRUE, md |-> musdict]}
    ELSE {[panic |-> FALSE, md |-> m] :
             m \in driver_loop(s, config, lits, musdict, MusSize(config.base_size_mus),
                               o.budget)}

\* get_many_vars_small_mus_quick from `if !muses.is_empty() && !config.find_bigger`
\* on, o the outcome of the scan for tiny muses
after_tiny_scan(s, lits, config, musdict, o) ==
    IF o.panic THEN {[panic |-> TRUE, md |-> musdict]}
    ELSE IF o.found # {} /\ ~config.find_bigger
        THEN {[panic |-> FALSE, md |-> add_found(musdict, o.found)]}
    ELSE {[panic |-> FALSE, md |-> m] :
             m \in driver_loop(s, config, lits, musdict, MusSize(config.base_size_mus),
                               o.budget)}

\* PuzzleSolver::get_many_vars_small_mus_quick(lits, config, musdict): the MusDicts
\* it may return (or the panic of a probe), with at most MaxLimits probes hitting
\* the conflict limit
get_many_vars_small_mus_quick(s, lits, config, musdict) ==
    UNION {after_tiny_scan(s, lits, config, musdict, o) : o \in tiny_scans(s, lits)}

-----------------------------------------------------------------------------
(* PuzzleSolver: MUS expansion *)

\* PuzzleSolver::get_varlits_provable_by_mus(candidates, mc)
\* get_varlits_provable_by_mus without its solve: every candidate is kept
get_varlits_provable_by_mus_unsolved(s, candidates, mc) ==
    {c \in candidates : ~(Contains(s.knownlits, Neg(c)) \/ Contains(s.knownlits, c))}

get_varlits_provable_by_mus(s, candidates, mc) ==
    LET litorig == mc.mus \cup Range(s.knownlits) IN
    {c \in candidates :
        /\ ~(Contains(s.knownlits, Neg(c)) \/ Contains(s.knownlits, c))
        /\ ~assumption_solve(s.knownlits, litorig \cup {Neg(c)})}

\* PuzzleSolver::get_all_lits_in_scope_for_mus(mc); the provable-literal cache is
\* filled when the planner calls it
get_all_lits_in_scope_for_mus(s, mc) ==
    With({vvp.var : vvp \in UNION {direct_or_ordered_lit_to_varvalpair(l) :
                                      l \in UNION {varlits_in_con(m) : m \in mc.mus}}},
         LAMBDA scopevars :
             mc.lits \cup
             {l \in get_provable_varlits(s).tosolvelits.val :
                 \E vvp \in direct_or_ordered_lit_to_varvalpair(l) :
                     vvp.var \in scopevars})

\* PuzzleSolver::get_all_lits_solved_by_mus(mc)
get_all_lits_solved_by_mus(s, mc) ==
    MusContext_new_with_more_lits(
        get_varlits_provable_by_mus(s, get_all_lits_in_scope_for_mus(s, mc), mc), mc)

-----------------------------------------------------------------------------
(* PuzzlePlanner *)

\* PlannerConfig::default()
PlannerConfig_default ==
    [mus_config |-> MusConfig_default, merge_small_threshold |-> 1,
     skip_small_threshold |-> 0, expand_to_all_deductions |-> TRUE]

\* the configurations planners are built with: the default, and the default
\* without MUS expansion and without merging or skipping of small MUSes
PlannerConfigs ==
    {PlannerConfig_default,
     [PlannerConfig_default EXCEPT !.expand_to_all_deductions = FALSE,
                                   !.merge_small_threshold = 0,
                                   !.skip_small_threshold = -1]}

\* the configurations planners are built with on the puzzle "hard": the target
\* size of the driver grows by a factor of 2^16, so that it passes i32::MAX in
\* the third round
HardConfigs ==
    {[c EXCEPT !.mus_config.mus_mult_step = 65536, !.mus_config.repeats = r] :
        c \in PlannerConfigs, r \in 1..2}

\* the planner before PuzzlePlanner::new has built it. known0 and limited are
\* history: the literals known when the constructor returned, and the literals
\* with a size-0 MUS whose solve hit the conflict limit inside the constructor
NoPlanner ==
    [built |-> FALSE, config |-> PlannerConfig_default, known0 |-> {}, limited |-> {}]

\* PuzzlePlanner::mark_lit_as_deduced(lit)
mark_lit_as_deduced(s, lit) == add_known_lit(s, lit)

RECURSIVE mark_lits_as_deduced(_, _)
\* PuzzlePlanner::mark_lits_as_deduced(lits), and the `for l in lits` loops
mark_lits_as_deduced(s, lits) ==
    IF lits = <<>> \/ s.panicked THEN s
    ELSE mark_lits_as_deduced(mark_lit_as_deduced(s, Head(lits)), Tail(lits))

\* mark_trivial_lits_as_deduced marking nothing
mark_trivial_lits_as_deduced_none(s) ==
    {[s |-> get_provable_varlits(s), limited |-> {}]}

\* PuzzlePlanner::mark_trivial_lits_as_deduced: the states it may leave, each with
\* the literals that check_var_mus_size_0 left out because its solve hit the
\* conflict limit
mark_trivial_lits_as_deduced(s) ==
    With(get_provable_varlits(s),
         LAMBDA s1 :
    With(get_many_vars_mus_size_0(s1, s1.tosolvelits.val),
         LAMBDA outs :
             {[s |-> mark_lits_as_deduced(s1, SortedLits(trivial_lits)),
               limited |-> (UNION outs) \ trivial_lits] :
                 trivial_lits \in outs}))

\* PuzzlePlanner::all_smallish_muses: the MusDicts it may return
all_smallish_muses(s, config) ==
    With(get_provable_varlits(s),
         LAMBDA s1 : get_many_vars_small_mus_quick(s1, s1.tosolvelits.val,
                                                   config.mus_config, MusDict_new))

\* smallest_muses keeping every MUS of least size of a literal, not the first only
smallest_muses_every(muses) ==
    With(md_min(muses),
         LAMBDA min :
             IF ~min.some THEN {}
             ELSE {MusContext_new(l[1], l[2]) :
                      l \in {k \in UNION {{<<j, m>> : m \in muses[j]} : j \in DOMAIN muses} :
                                Cardinality(k[2]) <= min.val}})

\* PuzzlePlanner::smallest_muses on the MusDict of all_smallish_muses; the order
\* of the vector is the iteration order of a HashMap, so it is given as a set
smallest_muses(muses) ==
    With(md_min(muses),
         LAMBDA min :
             IF ~min.some THEN {}
             ELSE {MusContext_new(l[1], l[2]) :
                      l \in {k \in {<<j, FirstMus(muses[j])>> :
                                       j \in {i \in DOMAIN muses : muses[i] # {}}} :
                                Cardinality(k[2]) <= min.val}})

\* smallest_muses_with_config returning one MusContext whatever the size
smallest_muses_with_config_single(s, config, md) ==
    With(merge_muscontexts(smallest_muses(md)),
         LAMBDA merged : IF merged = <<>> THEN <<>> ELSE <<merged[1]>>)

\* PuzzlePlanner::smallest_muses_with_config on the MusDict of all_smallish_muses
smallest_muses_with_config(s, config, md) ==
    With(merge_muscontexts(smallest_muses(md)),
         LAMBDA merged :
             IF merged = <<>> THEN <<>>
             ELSE IF mus_len(merged[1]) <= config.merge_small_threshold THEN merged
             ELSE IF config.expand_to_all_deductions
                 THEN <<get_all_lits_solved_by_mus(s, merged[1])>>
             ELSE <<merged[1]>>)

\* PuzzlePlanner::mus_to_user_mus(mc)
mus_to_user_mus(mc) ==
    With(SortedLits(mc.mus),
         LAMBDA x : <<UNION {lit_to_vars(l) : l \in mc.lits},
                      [i \in 1..Len(x) |-> lit_to_con(x[i])]>>)

RECURSIVE mark_muses(_, _)
\* quick_solve_impl: `for mus in &muses { for lit in &mus.lits { .. } }`
mark_muses(s, muses) ==
    IF muses = <<>> \/ s.panicked THEN s
    ELSE mark_muses(mark_lits_as_deduced(s, SortedLits(Head(muses).lits)), Tail(muses))

\* a step of quick_solve_impl: the MUSes as mus_to_user_mus gives them, and with
\* them the literals that were known when the iteration began
Step(before, muses) ==
    [before |-> before, muses |-> [i \in 1..Len(muses) |-> mus_to_user_mus(muses[i])]]

\* the body of the loop of quick_solve_impl without the test of
\* skip_small_threshold: every round emits a step
quick_solve_body_no_skip(s, config, steps, md) ==
    With(smallest_muses_with_config(s, config, md),
         LAMBDA muses :
             [s |-> mark_muses(s, muses),
              steps |-> Append(steps, Step(Range(s.knownlits), muses)),
              done |-> FALSE])

\* the body of the loop of quick_solve_impl, once all_smallish_muses returned md;
\* with no MUS at all the line that logs the step indexes muses[0], and panics
\* when the logger (or quick_solve_with_progress) evaluates it
quick_solve_body(s, config, steps, md) ==
    With(smallest_muses_with_config(s, config, md),
         LAMBDA muses :
             [s |-> mark_muses(s, muses),
              steps |-> IF muses # <<>> /\ mus_len(muses[1]) <= config.skip_small_threshold
                            THEN steps
                            ELSE Append(steps, Step(Range(s.knownlits), muses)),
              done |-> FALSE])

\* quick_solve_impl with the test of its loop inverted: it returns at once
quick_solve_loop_inverted(s, config, steps) ==
    {[s |-> get_provable_varlits(s), steps |-> steps, done |-> TRUE]}

\* one turn of the loop of quick_solve_impl: the outcomes it may have
quick_solve_loop(s, config, steps) ==
    With(get_provable_varlits(s),
         LAMBDA s1 :
    IF s1.tosolvelits.val = {} THEN {[s |-> s1, steps |-> steps, done |-> TRUE]}
    ELSE UNION {
        (IF d.panic \/ smallest_muses(d.md) = {}
             THEN {[s |-> [s1 EXCEPT !.panicked = TRUE], steps |-> steps,
                    done |-> FALSE]}
             ELSE {})
        \cup (IF d.panic THEN {} ELSE {quick_solve_body(s1, config, steps, d.md)}) :
        d \in all_smallish_muses(s1, config)})

RECURSIVE drain(_, _)
\* the loop `while !get_provable_varlits().is_empty()` of check_solvability and of
\* get_provable_varlits_including_reveals, with the literals it collects
drain(s, all_lits) ==
    With(get_provable_varlits(s),
         LAMBDA s1 :
             IF s1.panicked \/ s1.tosolvelits.val = {}
                 THEN [s |-> s1, all_lits |-> all_lits]
                 ELSE drain(mark_lits_as_deduced(s1, SortedLits(s1.tosolvelits.val)),
                            all_lits \cup s1.tosolvelits.val))

\* PuzzlePlanner::check_solvability: the state it leaves and what it returns
check_solvability(s) ==
    With(drain(s, {}).s,
         LAMBDA s1 :
             [s |-> s1,
              ret |-> IF is_currently_solvable(s1)
                          THEN Some(Cardinality(get_literals_to_try_solving(s1)))
                          ELSE None])

\* PuzzlePlanner::get_provable_varlits_including_reveals
get_provable_varlits_including_reveals(s) ==
    With(drain(s, {}), LAMBDA d : [s |-> d.s, ret |-> d.all_lits])

-----------------------------------------------------------------------------
(* The state machine *)

\* the record kept of the last operation: its name, the literal it was called
\* with, its other argument (for an addition, whether the literal was known
\* before the call) and what it returned
Op(name, lit, arg, result) == <<name, lit, arg, result>>

LastOp == last[1]

LastLit == last[2]

LastArg == last[3]

LastRet == last[4]

\* writes the solver fields of s back and moves to `next`; a panic inside the
\* operation ends the run, and nothing of the solver is left to observe
Store(s, next) ==
    /\ knownlits' = IF s.panicked THEN <<>> ELSE s.knownlits
    /\ tosolvelits' = IF s.panicked THEN None ELSE s.tosolvelits
    /\ pc' = IF s.panicked THEN "panicked" ELSE next

\* whether lit follows from the CON literals and the known literals
Deducible(known, lit) == ~Sat(conset_lits \cup Range(known) \cup {Neg(lit)})

\* PuzzleSolver::new / new_with_config
Init ==
    /\ puzzle \in Puzzles
    /\ only_assignments \in BOOLEAN
    /\ debug_build \in BOOLEAN
    /\ knownlits = <<>>
    /\ tosolvelits = None
    /\ planner = NoPlanner
    /\ pc = "idle"
    /\ solvesteps = <<>>
    /\ mus_dict = MusDict_new
    /\ satcore = SatCore_new
    /\ last = Op("new", 0, 0, 0)

\* a call of PuzzleSolver::get_provable_varlits
GetProvableVarlits ==
    /\ pc = "idle"
    /\ \E s \in {get_provable_varlits(SolverState)} :
       /\ Store(s, "idle")
       /\ last' = Op("get_provable_varlits", 0, 0, s.tosolvelits.val)
    /\ UNCHANGED <<mus_dict, satcore, puzzle, only_assignments, debug_build, planner, solvesteps>>

\* a call of PuzzleSolver::add_known_lit on a literal that is deduced or already
\* known
AddKnownLit ==
    /\ pc = "idle"
    /\ \E lit \in varset_lits :
        /\ Deducible(knownlits, lit)
        /\ Contains(knownlits, lit) \/ Len(knownlits) < MaxKnown
        /\ Store(add_known_lit(SolverState, lit), "idle")
        /\ last' = Op("add_known_lit", lit, Contains(knownlits, lit), 0)
    /\ UNCHANGED <<mus_dict, satcore, puzzle, only_assignments, debug_build, planner, solvesteps>>

\* a call of PuzzleSolver::add_not_provable_known_lit on any literal of a VAR or
\* of a REVEAL target
AddNotProvableKnownLit ==
    /\ pc = "idle"
    /\ Len(knownlits) < MaxHinted
    /\ \E lit \in DOMAIN invlitmap \ (conset_lits \cup {Neg(c) : c \in conset_lits}) :
        /\ Store(add_not_provable_known_lit(SolverState, lit), "idle")
        /\ last' = Op("add_not_provable_known_lit", lit, Contains(knownlits, lit), 0)
    /\ UNCHANGED <<mus_dict, satcore, puzzle, only_assignments, debug_build, planner, solvesteps>>

\* a solve whose result is expect()ed hits the conflict limit: the run panics
SolverLimitPanic ==
    /\ pc # "panicked"
    /\ pc' = "panicked"
    /\ knownlits' = <<>>
    /\ tosolvelits' = None
    /\ solvesteps' = <<>>
    /\ last' = Op("limit", 0, 0, 0)
    /\ UNCHANGED <<mus_dict, satcore, puzzle, only_assignments, debug_build, planner>>

\* the MUS finders; one call of a finder is recorded between two additions, since
\* a finder takes &self and leaves the solver as it found it
MusOps == {"get_var_mus_quick", "get_var_mus_slice", "get_var_mus_cake"}

\* the size caps the MUS finders are called with
MaxSizes == {None} \cup {Some(k) : k \in 0..MaxMusSize}

\* a call of PuzzleSolver::get_var_mus_quick
GetVarMusQuick ==
    /\ pc = "idle"
    /\ LastOp \notin MusOps
    /\ \E lit \in varset_lits, max_size \in MaxSizes :
        \E r \in get_var_mus_quick(SolverState, lit, max_size) :
            last' = Op("get_var_mus_quick", lit, max_size, r)
    /\ UNCHANGED <<mus_dict, satcore, puzzle, only_assignments, debug_build, knownlits,
                   tosolvelits, planner, pc, solvesteps>>

\* a call of PuzzleSolver::get_var_mus_slice
GetVarMusSlice ==
    /\ pc = "idle"
    /\ LastOp \notin MusOps
    /\ \E lit \in varset_lits, max_size \in MaxSizes :
        \E r \in get_var_mus_slice(SolverState, lit, max_size) :
            last' = Op("get_var_mus_slice", lit, max_size, r)
    /\ UNCHANGED <<mus_dict, satcore, puzzle, only_assignments, debug_build, knownlits,
                   tosolvelits, planner, pc, solvesteps>>

\* a call of PuzzleSolver::get_var_mus_cake
GetVarMusCake ==
    /\ pc = "idle"
    /\ LastOp \notin MusOps
    /\ \E lit \in varset_lits, max_size \in 0..MaxMusSize :
        \E r \in get_var_mus_cake(SolverState, lit, max_size) :
            last' = Op("get_var_mus_cake", lit, Some(max_size), r)
    /\ UNCHANGED <<mus_dict, satcore, puzzle, only_assignments, debug_build, knownlits,
                   tosolvelits, planner, pc, solvesteps>>

\* PuzzlePlanner::new / new_with_config on a solver that was just built
\* a call of get_var_mus_size_1(lit, count)
GetVarMusSize1 ==
    /\ pc = "idle"
    /\ LastOp \notin {"get_var_mus_size_1", "get_var_mus_size_1_lib"}
    /\ \E lit \in varset_lits, count \in MaxSizes :
        \E r \in get_var_mus_size_1(SolverState, lit, count) :
            last' = Op("get_var_mus_size_1", lit, count, r)
    /\ UNCHANGED <<mus_dict, satcore, puzzle, only_assignments, debug_build, knownlits,
                   tosolvelits, planner, pc, solvesteps>>

\* a call of demystify-lib's get_var_mus_size_1(lit, count)
GetVarMusSize1Lib ==
    /\ pc = "idle"
    /\ LastOp \notin {"get_var_mus_size_1", "get_var_mus_size_1_lib"}
    /\ \E lit \in varset_lits, count \in MaxSizes :
        \E r \in get_var_mus_size_1_lib(SolverState, lit, count) :
            last' = Op("get_var_mus_size_1_lib", lit, count, r)
    /\ UNCHANGED <<mus_dict, satcore, puzzle, only_assignments, debug_build, knownlits,
                   tosolvelits, planner, pc, solvesteps>>

\* the sets of literals the driver is called on: as its callers do, literals the
\* puzzle and the known literals entail
DriverLits ==
    {L \in SUBSET {l \in varset_lits : Deducible(knownlits, l)} :
        Cardinality(L) <= MaxDriverLits}

\* the MusConfigs the driver is called with
DriverConfigs == {MusConfig_default}

\* a call of get_many_vars_small_mus_quick(lits, config, None); the outcome of its
\* scan for tiny muses is recorded with the result
GetManyVarsSmallMusQuick ==
    /\ pc = "idle"
    /\ LastOp # "get_many_vars_small_mus_quick"
    /\ \E lits \in DriverLits, config \in DriverConfigs :
        /\ \E o \in tiny_scans(SolverState, lits) :
             \E d \in after_tiny_scan(SolverState, lits, config, MusDict_new, o) :
                 last' = Op("get_many_vars_small_mus_quick", lits,
                            [find_bigger |-> config.find_bigger, scan |-> o], d)
    /\ UNCHANGED <<mus_dict, satcore, puzzle, only_assignments, debug_build, knownlits,
                   tosolvelits, planner, pc, solvesteps>>

\* the probes of one round of the driver's loop, run in parallel: the literal of
\* each probe (every literal of lits config.repeats times)
RoundCalls(lits, config) ==
    With(SortedLits(lits),
         LAMBDA sorted : [i \in 1..(Len(sorted) * config.repeats) |->
                             sorted[((i - 1) \div config.repeats) + 1]])

\* the mus_size of the first two rounds of the loop
RoundSizes(config) ==
    {config.base_size_mus,
     config.base_size_mus * config.mus_mult_step + config.mus_add_step}

\* the state of a round: the round's mus_size, best_mus_size with the values it
\* has held since the round's store, and each probe's position
Round(mus_size, best, held, probes) ==
    Op("round", mus_size, [best |-> best, held |-> held], probes)

\* best_mus_size.store(mus_size, Relaxed) and the spawning of the probes
RoundStart ==
    /\ pc = "idle"
    /\ LastOp = "new"
    /\ \E lits \in {L \in DriverLits \ {{}} : Cardinality(L) <= MaxRoundLits},
          mus_size \in RoundSizes(MusConfig_default) :
        last' = Round(mus_size, mus_size, {mus_size},
                      [i \in DOMAIN RoundCalls(lits, MusConfig_default) |->
                          [at |-> "load", x |-> RoundCalls(lits, MusConfig_default)[i],
                           t |-> 0, ret |-> None]])
    /\ UNCHANGED <<mus_dict, satcore, puzzle, only_assignments, debug_build, knownlits,
                   tosolvelits, planner, pc, solvesteps>>

\* a probe's best_mus_size.load(Relaxed): one of the values best_mus_size has
\* held since the round's store
ProbeLoad ==
    /\ pc = "idle"
    /\ LastOp = "round"
    /\ \E i \in DOMAIN LastRet, t \in LastArg.held :
        /\ LastRet[i].at = "load"
        /\ last' = Op("round", LastLit, LastArg,
                      [LastRet EXCEPT ![i].at = "find", ![i].t = t])
    /\ UNCHANGED <<mus_dict, satcore, puzzle, only_assignments, debug_build, knownlits,
                   tosolvelits, planner, pc, solvesteps>>

\* a probe's call of the finder and, on Ok(Some(y)), its fetch_min(y.len()); the
\* probe's record keeps y.len()
ProbeReport ==
    /\ pc = "idle"
    /\ LastOp = "round"
    /\ \E i \in DOMAIN LastRet :
        /\ LastRet[i].at = "find"
        /\ \E r \in strategy_call(SolverState, MusConfig_default, LastRet[i].x,
                                   LastRet[i].t) :
            \E best \in {IF r.some THEN fetch_min(LastArg.best, Cardinality(r.val))
                                    ELSE LastArg.best} :
                last' = Round(LastLit, best, LastArg.held \cup {best},
                              [LastRet EXCEPT ![i].at = "done",
                                              ![i].ret = IF r.some
                                                             THEN Some(Cardinality(r.val))
                                                             ELSE None])
    /\ UNCHANGED <<mus_dict, satcore, puzzle, only_assignments, debug_build, knownlits,
                   tosolvelits, planner, pc, solvesteps>>

\* annotations $#VAR x, $#AUX h, $#CON c
ParseEprime == [vars |-> {"x"}, auxvars |-> {"h"}, cons |-> {"c"}, reveal_values |-> {}]

\* the keys of the litmaps finalise is run on. read_dimacs inserts literals
\* `var = val` only; finalise also takes a map that holds a negation already
ParseKeys ==
    {PuzLit_new_eq(PuzVar("x", <<1>>), 1), PuzLit_new_neq(PuzVar("x", <<1>>), 1),
     PuzLit_new_eq(PuzVar("h", <<1>>), 1),
     PuzLit_new_eq(PuzVar("c", <<1>>), 1), PuzLit_new_eq(PuzVar("c", <<1>>), 0)}

ParseLits == {l \in (0 - MaxParseVar)..MaxParseVar : l # 0}

ReadInputs == UNION {[D -> ParseLits] : D \in SUBSET ParseKeys}

\* a run of PuzzleParse::finalise on the litmap that was read
Finalise ==
    /\ pc = "idle"
    /\ LastOp = "read"
    /\ last' = Op("finalise", 0, LastArg, finalise(ParseEprime, LastArg))
    /\ UNCHANGED <<mus_dict, satcore, puzzle, only_assignments, debug_build, knownlits,
                   tosolvelits, planner, pc, solvesteps>>

NewPlanner ==
    /\ pc = "idle"
    /\ ~planner.built
    /\ \E config \in (IF puzzle = "hard" THEN HardConfigs ELSE PlannerConfigs) :
        /\ \E o \in mark_trivial_lits_as_deduced(SolverState) :
            /\ Store(o.s, "idle")
            /\ planner' = [built |-> TRUE, config |-> config,
                           known0 |-> IF o.s.panicked THEN {} ELSE Range(o.s.knownlits),
                           limited |-> o.limited]
        /\ last' = Op("new_with_config", 0, 0, 0)
    /\ UNCHANGED <<mus_dict, satcore, puzzle, only_assignments, debug_build, solvesteps>>

\* a call of PuzzlePlanner::mark_lit_as_deduced on a literal that is deduced or
\* already known
MarkLitAsDeduced ==
    /\ pc = "idle"
    /\ planner.built
    /\ \E lit \in varset_lits :
        /\ Deducible(knownlits, lit)
        /\ Contains(knownlits, lit) \/ Len(knownlits) < MaxKnown
        /\ Store(mark_lit_as_deduced(SolverState, lit), "idle")
        /\ last' = Op("mark_lit_as_deduced", lit, 0, 0)
    /\ UNCHANGED <<mus_dict, satcore, puzzle, only_assignments, debug_build, planner, solvesteps>>

\* what a turn of the loop of quick_solve_impl leaves
QuickSolveTurn(o) ==
    /\ Store(o.s, IF o.done THEN "idle" ELSE "quick_solve")
    /\ solvesteps' = IF o.s.panicked THEN <<>> ELSE o.steps
    /\ last' = Op("quick_solve", 0, 0, o.done /\ ~o.s.panicked)

\* a call of PuzzlePlanner::quick_solve, up to the end of the first turn of its loop
QuickSolve ==
    /\ pc = "idle"
    /\ planner.built
    /\ \E o \in quick_solve_loop(SolverState, planner.config, <<>>) : QuickSolveTurn(o)
    /\ UNCHANGED <<mus_dict, satcore, puzzle, only_assignments, debug_build, planner>>

\* a further turn of the loop of quick_solve_impl; when no literal is provable
\* quick_solve returns solvesteps
QuickSolveLoop ==
    /\ pc = "quick_solve"
    /\ Len(solvesteps) < MaxSteps
    /\ \E o \in quick_solve_loop(SolverState, planner.config, solvesteps) :
           QuickSolveTurn(o)
    /\ UNCHANGED <<mus_dict, satcore, puzzle, only_assignments, debug_build, planner>>

\* a call of PuzzlePlanner::check_solvability
CheckSolvability ==
    /\ pc = "idle"
    /\ planner.built
    /\ \E o \in {check_solvability(SolverState)} :
       /\ Store(o.s, "idle")
       /\ last' = Op("check_solvability", 0, 0, o.ret)
    /\ UNCHANGED <<mus_dict, satcore, puzzle, only_assignments, debug_build, planner, solvesteps>>

\* a call of PuzzlePlanner::get_provable_varlits_including_reveals
GetProvableVarlitsIncludingReveals ==
    /\ pc = "idle"
    /\ planner.built
    /\ \E o \in {get_provable_varlits_including_reveals(SolverState)} :
       /\ Store(o.s, "idle")
       /\ last' = Op("get_provable_varlits_including_reveals", 0, 0, o.ret)
    /\ UNCHANGED <<mus_dict, satcore, puzzle, only_assignments, debug_build, planner, solvesteps>>

\* a call of PuzzlePlanner::smallest_muses_with_config; the record keeps the
\* MusDict that all_smallish_muses returned inside the call
SmallestMusesWithConfig ==
    /\ pc = "idle"
    /\ planner.built
    /\ \E s1 \in {get_provable_varlits(SolverState)} :
        \E d \in all_smallish_muses(s1, planner.config) :
            /\ Store([s1 EXCEPT !.panicked = d.panic], "idle")
            /\ last' = Op("smallest_muses_with_config", 0, d.md,
                          IF d.panic THEN <<>>
                          ELSE smallest_muses_with_config(s1, planner.config, d.md))
    /\ UNCHANGED <<mus_dict, satcore, puzzle, only_assignments, debug_build, planner, solvesteps>>

\* a call of PuzzleSolver::get_all_lits_solved_by_mus on the MusContext of a
\* literal and a MUS that get_var_mus_quick found for it
GetAllLitsSolvedByMus ==
    /\ pc = "idle"
    /\ \E lit \in varset_lits :
        \E r \in get_var_mus_quick(SolverState, lit, None) :
            /\ r.some
            /\ \E mc \in {MusContext_new(lit, r.val)} :
                /\ Store(get_provable_varlits(SolverState), "idle")
                /\ last' = Op("get_all_lits_solved_by_mus", 0, mc,
                              get_all_lits_solved_by_mus(SolverState, mc))
    /\ UNCHANGED <<mus_dict, satcore, puzzle, only_assignments, debug_build, planner, solvesteps>>

\* the literals and the MUSes that MusDicts and MusContexts on their own are
\* built from
MaxDictLit == 2

DictLits == {l \in varset_lits : 0 < l /\ l <= MaxDictLit}

MusInputs == {m \in SUBSET conset_lits : Cardinality(m) <= MaxMusSize + 1}

\* the longest list merge_muscontexts is called with
MaxContexts == 2

\* a call of MusDict::add_mus
AddMus ==
    /\ pc = "idle"
    /\ \E lit \in DictLits, new_mus \in MusInputs :
        /\ mus_dict' = add_mus(mus_dict, lit, new_mus)
        /\ last' = Op("add_mus", lit, new_mus, 0)
    /\ UNCHANGED <<satcore, puzzle, only_assignments, debug_build, knownlits,
                   tosolvelits, planner, pc, solvesteps>>

\* a call of merge_muscontexts on the list that was drawn
MergeMuscontexts ==
    /\ pc = "idle"
    /\ LastOp = "list"
    /\ last' = Op("merge_muscontexts", 0, LastArg, merge_muscontexts(LastArg))
    /\ UNCHANGED <<mus_dict, satcore, puzzle, only_assignments, debug_build,
                   knownlits, tosolvelits, planner, pc, solvesteps>>

\* the longest list of known literals a SatCore on its own is given
MaxFixed == 2

\* the literals a SatCore on its own is called with: x[1]=1 and x[1]=2
CoreLits == {puzlit_to_lit(PuzLit_new_eq(PuzVar("x", <<1>>), d)) : d \in {1, 2}}

\* the lists `known` that quick_mus is called with on a SatCore on its own
KnownInputs == UNION {[1..n -> CoreLits] : n \in 0..MaxFixed}

\* the lists `lits` that the operations of a SatCore on its own are called with:
\* one literal, or the negation of a literal after all CON literals
LitsInputs ==
    {<<l>> : l \in CoreLits}
    \cup {Append(SortedLits(conset_lits), Neg(l)) : l \in CoreLits}

\* the operations of SatCore
SatCoreOps ==
    {"assumption_solve", "assumption_solve_solution", "assumption_solve_with_core",
     "quick_mus"}

\* the record of a solve inside an operation of SatCore: the SolverResult, and for
\* quick_mus the core, the position in `lits` and known_size
Solved(solve, core, i, known_size) ==
    [solve |-> solve, core |-> core, i |-> i, known_size |-> known_size]

\* a call of SatCore::assumption_solve
AssumptionSolve ==
    /\ pc = "idle"
    /\ \E lits \in LitsInputs :
        \E solve \in do_solve_assumps(satcore.solver, Range(lits)) :
            last' = Op("assumption_solve", <<lits>>, Solved(solve, {}, 0, 0),
                       assumption_solve_match(solve))
    /\ UNCHANGED <<mus_dict, satcore, puzzle, only_assignments, debug_build,
                   knownlits, tosolvelits, planner, pc, solvesteps>>

\* a call of SatCore::assumption_solve_solution
AssumptionSolveSolution ==
    /\ pc = "idle"
    /\ \E lits \in LitsInputs :
        \E solve \in do_solve_assumps(satcore.solver, Range(lits)) :
            \E r \in assumption_solve_solution_match(satcore.solver, Range(lits), solve) :
                last' = Op("assumption_solve_solution", <<lits>>,
                           Solved(solve, {}, 0, 0), r)
    /\ UNCHANGED <<mus_dict, satcore, puzzle, only_assignments, debug_build,
                   knownlits, tosolvelits, planner, pc, solvesteps>>

\* a call of SatCore::assumption_solve_with_core
AssumptionSolveWithCore ==
    /\ pc = "idle"
    /\ \E lits \in LitsInputs :
        \E c \in {fix_values(satcore, <<>>)} :
            \E solve \in do_solve_assumps(c.solver, Range(lits)) :
                \E r \in raw_assumption_solve_with_core_match(c.solver, Range(lits),
                                                              solve) :
                    /\ satcore' = c
                    /\ last' = Op("assumption_solve_with_core", <<lits>>,
                                  Solved(solve, {}, 0, 0), r)
    /\ UNCHANGED <<mus_dict, puzzle, only_assignments, debug_build, knownlits,
                   tosolvelits, planner, pc, solvesteps>>

\* a call of SatCore::quick_mus, up to its loop: it returns when its first solve
\* is interrupted or finds `lits` satisfiable
QuickMusCall ==
    /\ pc = "idle"
    /\ \E known \in KnownInputs, lits \in LitsInputs, max_size \in MaxSizes :
        \E c \in {fix_values(satcore, known)} :
            \E solve \in do_solve_assumps(c.solver, Range(lits)) :
                \E core \in raw_assumption_solve_with_core_match(c.solver, Range(lits),
                                                                 solve) :
                    /\ satcore' = c
                    /\ pc' = IF core.some THEN "quick_mus" ELSE "idle"
                    /\ last' = Op("quick_mus", <<known, lits, max_size>>,
                                  Solved(solve, core.val, 1, 0), core)
    /\ UNCHANGED <<mus_dict, puzzle, only_assignments, debug_build, knownlits,
                   tosolvelits, planner, solvesteps>>

\* what a turn of the loop of quick_mus leaves: the operation goes on or returns
QuickMusTurn(solved, goes_on, ret) ==
    /\ pc' = IF goes_on THEN "quick_mus" ELSE "idle"
    /\ last' = Op("quick_mus", LastLit, solved, ret)

\* a turn of the loop `for &lit in lits` of SatCore::quick_mus, and its return
\* after the loop
QuickMusLoop ==
    /\ pc = "quick_mus"
    /\ LastOp = "quick_mus"
    /\ \E lits \in {LastLit[2]}, max_size \in {LastLit[3]}, st \in {LastArg} :
        IF st.i > Len(lits)
            THEN QuickMusTurn(st, FALSE, OkSome({x \in st.core : Contains(lits, x)}))
        ELSE IF lits[st.i] \notin st.core
            THEN QuickMusTurn(Solved(st.solve, st.core, st.i + 1, st.known_size),
                              TRUE, LastRet)
        ELSE \E solve \in do_solve_assumps(satcore.solver, st.core \ {lits[st.i]}) :
            \E candidate \in raw_assumption_solve_with_core_match(
                                 satcore.solver, st.core \ {lits[st.i]}, solve) :
                IF candidate.err
                    THEN QuickMusTurn(Solved(solve, st.core, st.i, st.known_size),
                                      FALSE, candidate)
                ELSE IF candidate.some
                    THEN QuickMusTurn(Solved(solve, candidate.val, st.i + 1,
                                             st.known_size), TRUE, LastRet)
                ELSE IF max_size.some /\ st.known_size + 1 > max_size.val
                    THEN QuickMusTurn(Solved(solve, st.core, st.i, st.known_size + 1),
                                      FALSE, OkNone)
                ELSE QuickMusTurn(Solved(solve, st.core, st.i + 1, st.known_size + 1),
                                  TRUE, LastRet)
    /\ UNCHANGED <<mus_dict, satcore, puzzle, only_assignments, debug_build,
                   knownlits, tosolvelits, planner, solvesteps>>

\* the most solves that hit the conflict limit in a run of solves
MaxTrips == 1002

\* a call of SatCore::do_solve_assumps in a run of solves; the record keeps the
\* number of solves that hit the conflict limit before it and the limit it set
DoSolveAssumps ==
    /\ pc = "idle"
    /\ LastOp \in {"new", "do_solve_assumps"}
    /\ \E trips \in {IF LastOp = "new" THEN 0
                     ELSE LastLit + (IF LastRet = "Interrupted" THEN 1 ELSE 0)} :
        /\ trips <= MaxTrips
        /\ \E solve \in do_solve_assumps(satcore.solver, {}) :
               last' = Op("do_solve_assumps", trips, set_limit, solve)
    /\ UNCHANGED <<mus_dict, satcore, puzzle, only_assignments, debug_build,
                   knownlits, tosolvelits, planner, pc, solvesteps>>

\* the PuzzleSolver on its own
Next ==
    \/ GetProvableVarlits
    \/ AddKnownLit
    \/ AddNotProvableKnownLit
    \/ SolverLimitPanic

Spec == Init /\ [][Next]_vars

\* the solver with its MUS finders called between additions of known literals
InitMus == Init /\ ~debug_build /\ ~only_assignments

NextMus ==
    \/ AddKnownLit
    \/ GetVarMusQuick
    \/ GetVarMusSlice
    \/ GetVarMusCake

SpecMus == InitMus /\ [][NextMus]_vars

\* a PuzzlePlanner built on a new solver, and the operations of the planner
NextPlanner ==
    \/ NewPlanner
    \/ MarkLitAsDeduced
    \/ QuickSolve
    \/ QuickSolveLoop
    \/ CheckSolvability
    \/ GetProvableVarlitsIncludingReveals
    \/ SolverLimitPanic

SpecPlanner == Init /\ [][NextPlanner]_vars

\* a PuzzlePlanner asked for the MUSes of its next step
NextSmallest ==
    \/ NewPlanner
    \/ MarkLitAsDeduced
    \/ SmallestMusesWithConfig

SpecSmallest == Init /\ [][NextSmallest]_vars

\* the solver with MUS expansion called between additions of known literals
NextExpand ==
    \/ AddKnownLit
    \/ GetAllLitsSolvedByMus
    \/ SolverLimitPanic

SpecExpand == Init /\ [][NextExpand]_vars

\* a MusDict on its own, filled by add_mus
InitDict == Init /\ puzzle = "little" /\ ~debug_build /\ ~only_assignments

NextDict == AddMus

SpecDict == InitDict /\ [][NextDict]_vars

\* merge_muscontexts on its own: a list of at most MaxContexts MusContexts is
\* drawn, given by the set of its elements
InitMerge ==
    /\ puzzle = "little"
    /\ only_assignments = FALSE
    /\ debug_build = FALSE
    /\ knownlits = <<>>
    /\ tosolvelits = None
    /\ planner = NoPlanner
    /\ pc = "idle"
    /\ solvesteps = <<>>
    /\ mus_dict = MusDict_new
    /\ satcore = SatCore_new
    /\ \E n \in 0..MaxContexts :
        \E v \in [1..n -> {MusContext_new_multi_lit(lits, mus) :
                              lits \in SUBSET DictLits \ {{}}, mus \in MusInputs}] :
            last = Op("list", 0, Range(v), 0)

NextMerge == MergeMuscontexts

SpecMerge == InitMerge /\ [][NextMerge]_vars

\* a SatCore on its own: every operation of its public interface
NextSatCore ==
    \/ AssumptionSolve
    \/ AssumptionSolveSolution
    \/ AssumptionSolveWithCore
    \/ QuickMusCall
    \/ QuickMusLoop

SpecSatCore == InitDict /\ [][NextSatCore]_vars

\* a run of solves of one program
NextTiny ==
    \/ AddKnownLit
    \/ GetVarMusSize1
    \/ GetVarMusSize1Lib

SpecTiny == InitMus /\ [][NextTiny]_vars

\* a solver of one of the puzzles `ps`, fresh or after add_known_lit of one
\* deduced literal
InitOneKnown(ps) ==
    /\ puzzle \in ps
    /\ only_assignments = FALSE
    /\ debug_build = FALSE
    /\ knownlits \in {<<>>} \cup
           {add_known_lit([knownlits |-> <<>>, tosolvelits |-> None,
                           panicked |-> FALSE], l).knownlits :
               l \in {x \in varset_lits : Deducible(<<>>, x)}}
    /\ tosolvelits = None
    /\ planner = NoPlanner
    /\ pc = "idle"
    /\ solvesteps = <<>>
    /\ mus_dict = MusDict_new
    /\ satcore = SatCore_new
    /\ last = Op("new", 0, 0, 0)

InitDriver == InitOneKnown(Puzzles)

NextDriver == GetManyVarsSmallMusQuick

SpecDriver == InitDriver /\ [][NextDriver]_vars

NextRound ==
    \/ RoundStart
    \/ ProbeLoad
    \/ ProbeReport

\* a solver of the puzzle "fork", where x[1] # 1 and x[1] = 2 have MUSes of
\* size 1 and of size 2
InitRound == InitOneKnown({"fork"})

SpecRound == InitRound /\ [][NextRound]_vars

\* a litmap read from a DIMACS file, not yet finalised
InitFinalise ==
    /\ puzzle = "little"
    /\ only_assignments = FALSE
    /\ debug_build = FALSE
    /\ knownlits = <<>>
    /\ tosolvelits = None
    /\ planner = NoPlanner
    /\ pc = "idle"
    /\ solvesteps = <<>>
    /\ mus_dict = MusDict_new
    /\ satcore = SatCore_new
    /\ last \in {Op("read", 0, read, 0) : read \in ReadInputs}

NextFinalise == Finalise

SpecFinalise == InitFinalise /\ [][NextFinalise]_vars

\* the clause lists FindVarConnections is built on: SAT variable 1 is the CON
\* variable, 2 an auxiliary variable, every other one a VAR variable
ScopeLits == {l \in (0 - MaxScopeVar)..MaxScopeVar : l # 0}

ScopeVarLits == {l \in ScopeLits : Abs(l) > 2}

ScopeClauses ==
    {cl \in {Range(f) : f \in [1..MaxScopeLen -> ScopeLits]} :
        \A l \in cl : Neg(l) \notin cl}

ScopeCnfs == {{}} \cup {Range(f) : f \in [1..MaxScopeClauses -> ScopeClauses]}

\* a clause list and the set of VAR literals, before FindVarConnections::new
InitScope ==
    /\ puzzle = "little"
    /\ only_assignments = FALSE
    /\ debug_build = FALSE
    /\ knownlits = <<>>
    /\ tosolvelits = None
    /\ planner = NoPlanner
    /\ pc = "idle"
    /\ solvesteps = <<>>
    /\ mus_dict = MusDict_new
    /\ satcore = SatCore_new
    /\ last \in {Op("cnf", 1, [cnf |-> cnf, all_var_lits |-> ScopeVarLits], 0) :
                    cnf \in ScopeCnfs}

\* FindVarConnections::new(sat, all_var_lits).get_connections(con_lit)
GetConnections ==
    /\ pc = "idle"
    /\ LastOp = "cnf"
    /\ last' = Op("get_connections", LastLit, LastArg,
                  get_connections(LastArg.cnf, LastArg.all_var_lits, LastLit))
    /\ UNCHANGED <<mus_dict, satcore, puzzle, only_assignments, debug_build, knownlits,
                   tosolvelits, planner, pc, solvesteps>>

NextScope == GetConnections

SpecScope == InitScope /\ [][NextScope]_vars

\* a PuzzlePlanner on the puzzle "hard"
InitHard ==
    /\ puzzle = "hard"
    /\ only_assignments \in BOOLEAN
    /\ debug_build \in BOOLEAN
    /\ knownlits = <<>>
    /\ tosolvelits = None
    /\ planner = NoPlanner
    /\ pc = "idle"
    /\ solvesteps = <<>>
    /\ mus_dict = MusDict_new
    /\ satcore = SatCore_new
    /\ last = Op("new", 0, 0, 0)

SpecHard == InitHard /\ [][NextPlanner]_vars

\* the MusConfigs the loop of the driver is run round by round on: steps from 0
\* on, base sizes from 0 on and up to i32::MAX. A size that grows by a constant
\* only (mus_mult_step = 1) starts near i32::MAX, for the rounds to be followed
GrowConfigs ==
    {c \in {[MusConfig_default EXCEPT !.base_size_mus = b, !.mus_add_step = a,
                                      !.mus_mult_step = m, !.find_bigger = fb] :
                b \in (0..MaxBase) \cup {i32_MAX - j : j \in 0..MaxBase},
                a \in 0..MaxAddStep, m \in 0..MaxMultStep, fb \in BOOLEAN} :
        c.mus_mult_step = 1 /\ c.mus_add_step > 0 => c.base_size_mus > MaxBase}

\* get_many_vars_small_mus_quick at the head of its `loop`, after a scan for tiny
\* muses that found none: min is md.min() of the dictionary
InitGrow ==
    /\ puzzle = "little"
    /\ only_assignments = FALSE
    /\ debug_build = FALSE
    /\ knownlits = <<>>
    /\ tosolvelits = None
    /\ planner = NoPlanner
    /\ pc = "idle"
    /\ solvesteps = <<>>
    /\ mus_dict = MusDict_new
    /\ satcore = SatCore_new
    /\ last \in {Op("driver_round", 0,
                     [config |-> c, mus_size |-> MusSize(c.base_size_mus), min |-> None],
                     FALSE) : c \in GrowConfigs}

\* the end of a round of the loop, min the value of md.min() after the merge of
\* the round's MUSes: return when the target is met or at the hard stop,
\* otherwise grow the target size for the next round
round_end(config, mus_size, min) ==
    IF \/ min.some /\ met_target(config, min.val, mus_size)
       \/ hard_stop(mus_size)
        THEN Op("driver_round", 0,
                [config |-> config, mus_size |-> mus_size, min |-> min], TRUE)
        ELSE Op("driver_round", 0,
                [config |-> config, mus_size |-> grow(config, mus_size), min |-> min],
                FALSE)

\* a round of the loop in which no probe returns a MUS
NoMusRound ==
    /\ LastOp = "driver_round"
    /\ ~LastRet
    /\ last' = round_end(LastArg.config, LastArg.mus_size, LastArg.min)
    /\ UNCHANGED <<mus_dict, satcore, puzzle, only_assignments, debug_build, knownlits,
                   tosolvelits, planner, pc, solvesteps>>

\* a round of the loop in which the smallest MUS the probes return has k literals
MusRound ==
    /\ LastOp = "driver_round"
    /\ ~LastRet
    /\ \E k \in 0..MaxFound :
           last' = round_end(LastArg.config, LastArg.mus_size,
                             IF LastArg.min.some /\ LastArg.min.val <= k
                                 THEN LastArg.min ELSE Some(k))
    /\ UNCHANGED <<mus_dict, satcore, puzzle, only_assignments, debug_build, knownlits,
                   tosolvelits, planner, pc, solvesteps>>

NextGrow ==
    \/ NoMusRound
    \/ MusRound

\* the loop runs each round to its end; that a probe finds a MUS is not promised
SpecGrow == InitGrow /\ [][NextGrow]_vars /\ WF_vars(NoMusRound)

\* an empty MusDict, and no pair (literal, MUS) added to it yet
InitOrder ==
    /\ puzzle = "little"
    /\ only_assignments = FALSE
    /\ debug_build = FALSE
    /\ knownlits = <<>>
    /\ tosolvelits = None
    /\ planner = NoPlanner
    /\ pc = "idle"
    /\ solvesteps = <<>>
    /\ mus_dict = MusDict_new
    /\ satcore = SatCore_new
    /\ last = Op("add_pairs", 0, {}, 0)

\* `md.add_mus(k, bts)` on the next pair of a collection that comes in any order,
\* a pair that was added before included
AddPair ==
    /\ LastOp = "add_pairs"
    /\ Cardinality(LastArg) < MaxAdded
    /\ \E lit \in DictLits, new_mus \in MusInputs :
        /\ mus_dict' = add_mus(mus_dict, lit, new_mus)
        /\ last' = Op("add_pairs", lit, LastArg \cup {<<lit, new_mus>>}, 0)
    /\ UNCHANGED <<satcore, puzzle, only_assignments, debug_build, knownlits,
                   tosolvelits, planner, pc, solvesteps>>

NextOrder == AddPair

SpecOrder == InitOrder /\ [][NextOrder]_vars

\* annotations $#VAR x, $#REVEAL x r
RevealEprime ==
    [vars |-> {"x"}, auxvars |-> {}, cons |-> {}, reveal_values |-> {"r"},
     reveal |-> [n \in {"x"} |-> "r"]]

\* the "c Var .. direct represents .. with .." lines of a DIMACS file for x[1] in
\* 1..MaxRevealVal and r[1,v] in {0,1}: x[1] = v on SAT variable v, r[1,v] on
\* MaxRevealVal + v. Savile Row writes i64::MAX (`sentinel`) in the place of the
\* literal of a value it has fixed
RevealLines ==
    {[lit |-> PuzLit_new_eq(PuzVar("x", <<1>>), v), sat |-> v] : v \in 1..MaxRevealVal}
    \cup {[lit |-> PuzLit_new_eq(PuzVar("r", <<1, v>>), 1), sat |-> MaxRevealVal + v] :
             v \in 1..MaxRevealVal}
    \cup {[lit |-> PuzLit_new_eq(PuzVar("r", <<1, v>>), 0), sat |-> 0 - (MaxRevealVal + v)] :
             v \in 1..MaxRevealVal}

\* read_dimacs: the lines of direct variables whose literal is not the sentinel
\* go into the litmap
read_dimacs(lines, sentinel) ==
    [p \in {l.lit : l \in lines \ sentinel} |-> (CHOOSE l \in lines : l.lit = p).sat]

\* PuzzleParse::finalise: reveal_map, from the literal of each positive PuzLit of
\* a REVEAL source to the literal of its target; a target that is not in the
\* litmap is logged and left out
finalise_reveal_map(eprime, lm) ==
    With({p \in DOMAIN lm : /\ p.var.name \in DOMAIN eprime.reveal
                            /\ p.equal
                            /\ reveal_target_in(eprime.reveal, p) \in DOMAIN lm},
         LAMBDA found :
             [lit \in {lm[p] : p \in found} |->
                 lm[reveal_target_in(eprime.reveal, CHOOSE p \in found : lm[p] = lit)]])

\* a DIMACS file of Savile Row with some literals written as the sentinel
InitReveal ==
    /\ puzzle = "little"
    /\ only_assignments = FALSE
    /\ debug_build = FALSE
    /\ knownlits = <<>>
    /\ tosolvelits = None
    /\ planner = NoPlanner
    /\ pc = "idle"
    /\ solvesteps = <<>>
    /\ mus_dict = MusDict_new
    /\ satcore = SatCore_new
    /\ last \in {Op("dimacs", 0, [lines |-> RevealLines, sentinel |-> sn], 0) :
                    sn \in SUBSET RevealLines}

\* read_dimacs and PuzzleParse::finalise on the file: None when the compilation
\* bails, else the litmap and the reveal_map
Compile ==
    /\ pc = "idle"
    /\ LastOp = "dimacs"
    /\ \E parsed \in {finalise(RevealEprime,
                                read_dimacs(LastArg.lines, LastArg.sentinel))} :
           last' = Op("compiled", 0, LastArg,
                      IF parsed.some
                          THEN Some([litmap |-> parsed.val.litmap,
                                     reveal_map |-> finalise_reveal_map(RevealEprime,
                                                        parsed.val.litmap)])
                          ELSE None)
    /\ UNCHANGED <<mus_dict, satcore, puzzle, only_assignments, debug_build, knownlits,
                   tosolvelits, planner, pc, solvesteps>>

\* add_known_lit_internal of a fresh solver of the compiled model, on a positive
\* literal of the REVEAL source variable
AddKnownLitInternal ==
    /\ pc = "idle"
    /\ LastOp = "compiled"
    /\ LastRet.some
    /\ \E p \in {q \in DOMAIN LastRet.val.litmap :
                    q.equal /\ q.var.name \in DOMAIN RevealEprime.reveal} :
           last' = Op("add_known_lit_internal", LastRet.val.litmap[p], LastRet.val,
                      add_known_lit_internal_on(
                          LastRet.val.litmap, RevealEprime.reveal,
                          [knownlits |-> <<>>, tosolvelits |-> None, panicked |-> FALSE],
                          LastRet.val.litmap[p]))
    /\ UNCHANGED <<mus_dict, satcore, puzzle, only_assignments, debug_build, knownlits,
                   tosolvelits, planner, pc, solvesteps>>

NextReveal ==
    \/ Compile
    \/ AddKnownLitInternal

SpecReveal == InitReveal /\ [][NextReveal]_vars

NextLimit == DoSolveAssumps

SpecLimit == InitDict /\ [][NextLimit]_vars

-----------------------------------------------------------------------------
(* Claims *)

\* the literals that are known
Known == Range(knownlits)

\* the clause database with all CON literals and the known literals has a model
Consistent == Sat(conset_lits \cup Known)

\* the candidates of get_provable_varlits that are still undecided: the literals
\* of the VARs, or in only-assignments mode only their positive assignments,
\* with neither the literal nor its negation known
Undecided ==
    {l \in IF only_assignments THEN {Neg(c) : c \in varset_lits_neg} ELSE varset_lits :
        l \notin Known /\ Neg(l) \notin Known}

\* the variables declared VAR
DecisionVars == {v \in DOMAIN domainmap : v.name \in eprime_vars}

\* the assignments of the decision variables that satisfy the clause database
\* with all CON literals and the literals of K
Solutions(K) == {m \cap varset_lits : m \in {n \in Models : conset_lits \cup K \subseteq n}}

\* the literal added is a positive literal of a variable with a REVEAL
RevealSources(lit) ==
    {p \in invlitmap[lit] : p.equal /\ p.var.name \in DOMAIN eprime_reveal}

\* C1: every literal of the set get_provable_varlits returns (the cache, whenever
\* it is populated) is deducible: the clause database with all CON literals, the
\* known literals and the negation of the literal is unsatisfiable
C1_ProvableAreDeducible ==
    tosolvelits.some => \A l \in tosolvelits.val : Deducible(knownlits, l)

\* C1 witness: get_provable_varlits returned deducible literals after additions
C1_Witness ==
    /\ LastOp = "get_provable_varlits"
    /\ LastRet # {}
    /\ Len(knownlits) > 0
    /\ Consistent

\* C2 as stated: a MUS M returned for a literal l is unsatisfiable with the known
\* literals and the negation of l, and M without any one c is satisfiable with them
C2_MusMinimalWithNegation ==
    (LastOp \in MusOps /\ LastRet.some) =>
        /\ ~Sat(LastRet.val \cup Known \cup {Neg(LastLit)})
        /\ \A c \in LastRet.val :
              Sat((LastRet.val \ {c}) \cup Known \cup {Neg(LastLit)})

\* C2 amended: a MUS M returned for a literal l is a set of CON literals that is
\* unsatisfiable with the known literals and the negation of l; when M is
\* satisfiable with the known literals, M without any one c is satisfiable with
\* the known literals and the negation of l; when M is unsatisfiable with the
\* known literals alone, M without any one c is satisfiable with the known literals
C2_MusMinimal ==
    (LastOp \in MusOps /\ LastRet.some) =>
        /\ LastRet.val \subseteq conset_lits
        /\ ~Sat(LastRet.val \cup Known \cup {Neg(LastLit)})
        /\ \A c \in LastRet.val :
              IF Sat(LastRet.val \cup Known)
                  THEN Sat((LastRet.val \ {c}) \cup Known \cup {Neg(LastLit)})
                  ELSE Sat((LastRet.val \ {c}) \cup Known)

\* C2 witness: a finder returned a MUS of two constraints in a consistent state
C2_Witness ==
    /\ LastOp \in MusOps
    /\ LastRet.some
    /\ Cardinality(LastRet.val) = 2
    /\ Len(knownlits) > 0
    /\ Consistent

\* C3: for every entry (deduced literals, constraints) of every step of
\* quick_solve and every deduced literal of the entry, the entry's constraints
\* with the literals known before the step and the negation of the literal are
\* unsatisfiable
C3_StepsJustified ==
    \A i \in 1..Len(solvesteps) : \A j \in 1..Len(solvesteps[i].muses) :
        LET entry == solvesteps[i].muses[j]
            cons == {invconset[entry[2][k]] : k \in 1..Len(entry[2])}
        IN \A p \in entry[1] :
               ~Sat(cons \cup solvesteps[i].before \cup {Neg(litmap[p])})

\* C3 witness: quick_solve returned steps, one of them made after literals were
\* known and justified by two constraints
C3_Witness ==
    /\ pc = "idle"
    /\ LastOp = "quick_solve"
    /\ LastRet
    /\ \E i \in 1..Len(solvesteps) :
          /\ solvesteps[i].before # {}
          /\ \E j \in 1..Len(solvesteps[i].muses) :
                /\ Len(solvesteps[i].muses[j][2]) = 2
                /\ solvesteps[i].muses[j][1] # {}

\* C4: when the puzzle has exactly one solution and quick_solve has returned,
\* for each decision variable exactly one positive literal is known
C4_QuickSolveAssignsAll ==
    (pc = "idle" /\ LastOp = "quick_solve" /\ LastRet
         /\ Cardinality(Solutions({})) = 1) =>
        \A v \in DecisionVars :
            Cardinality({d \in domainmap[v] :
                            litmap[PuzLit_new_eq(v, d)] \in Known}) = 1

\* C4 witness: quick_solve returned on a puzzle with exactly one solution
C4_Witness ==
    /\ pc = "idle"
    /\ LastOp = "quick_solve"
    /\ LastRet
    /\ Cardinality(Solutions({})) = 1
    /\ Len(solvesteps) > 0

\* C5: check_solvability returns None exactly when the clause database with all
\* CON literals and the known literals, as they are after its drain, has no model
C5_NoneIffNoModel ==
    (pc = "idle" /\ LastOp = "check_solvability") =>
        (~LastRet.some <=> ~Sat(conset_lits \cup Known))

\* C5 witness: check_solvability returned None
C5_Witness ==
    /\ pc = "idle"
    /\ LastOp = "check_solvability"
    /\ ~LastRet.some

\* C6 as stated: Some(n) counts the VAR literals with neither the literal nor its
\* negation known after the drain, and n = 0 only when exactly one assignment of
\* the decision variables satisfies the puzzle
C6_CountsVarLits ==
    (pc = "idle" /\ LastOp = "check_solvability" /\ LastRet.some) =>
        /\ LastRet.val =
               Cardinality({l \in varset_lits : l \notin Known /\ Neg(l) \notin Known})
        /\ LastRet.val = 0 => Cardinality(Solutions(Known)) = 1

\* C6 amended: Some(n) counts the literals Undecided after the drain (the VAR
\* literals, or in only-assignments mode only the assignments var = value, with
\* neither the literal nor its negation known), none of which is deducible any
\* more, and n = 0 only when exactly one assignment of the decision variables
\* satisfies the puzzle with the known literals
C6_CountsCandidates ==
    (pc = "idle" /\ LastOp = "check_solvability" /\ LastRet.some) =>
        /\ LastRet.val = Cardinality(Undecided)
        /\ \A l \in Undecided : ~Deducible(knownlits, l)
        /\ LastRet.val = 0 => Cardinality(Solutions(Known)) = 1

\* C6 witness: in only-assignments mode check_solvability counted literals that
\* are left undecided
C6_Witness ==
    /\ pc = "idle"
    /\ LastOp = "check_solvability"
    /\ LastRet.some
    /\ LastRet.val > 0
    /\ only_assignments
    /\ Len(knownlits) > 0

\* C7: across the planner's operations every literal that is known before an
\* operation is still known after it
C7_KnownOnlyGrows ==
    [][pc' # "panicked" => \A l \in Known : l \in Range(knownlits')]_vars

\* C7 witness: the planner was built and an operation of it has run on a list of
\* known literals that earlier operations filled
C7_Witness ==
    /\ planner.built
    /\ pc = "idle"
    /\ LastOp \in {"check_solvability", "get_provable_varlits_including_reveals"}
    /\ Len(solvesteps) > 0
    /\ Len(knownlits) > 2

\* C8: add_known_lit on a literal that is already known changes neither the list
\* of known literals nor the cache
C8_AddKnownTwice ==
    [][(LastOp' = "add_known_lit" /\ Contains(knownlits, LastLit')) =>
          (knownlits' = knownlits /\ tosolvelits' = tosolvelits)]_vars

\* C8 witness: add_known_lit was called on a literal that was already known,
\* with the cache populated, in a debug build
C8_Witness ==
    /\ LastOp = "add_known_lit"
    /\ LastArg
    /\ pc = "idle"
    /\ tosolvelits.some
    /\ debug_build

\* C9 as stated: the cache, when populated, is what a fresh computation returns:
\* the undecided candidates that are deducible
C9_CacheIsFresh ==
    tosolvelits.some =>
        tosolvelits.val = {l \in Undecided : Deducible(knownlits, l)}

\* C9 amended: the cache, when populated, holds no known literal, and without
\* the literals whose negation is known it is what a fresh computation returns;
\* when the clause database with all CON literals and the known literals has a
\* model, the cache is exactly what a fresh computation returns
C9_CacheIsFreshWhenConsistent ==
    tosolvelits.some =>
        /\ tosolvelits.val \cap Known = {}
        /\ {l \in tosolvelits.val : Neg(l) \notin Known} =
               {l \in Undecided : Deducible(knownlits, l)}
        /\ Consistent => tosolvelits.val = {l \in Undecided : Deducible(knownlits, l)}

\* C9 witness: the cache outlived the addition of a deduced literal and still
\* holds deducible literals
C9_Witness ==
    /\ LastOp = "add_known_lit"
    /\ ~LastArg
    /\ pc = "idle"
    /\ tosolvelits.some
    /\ tosolvelits.val # {}
    /\ Consistent

\* C10: when a positive literal src[idx] = v of a variable with a REVEAL src->dst
\* is added as known, then when the addition returns dst[idx ++ [v]] = 1 is known
\* and the cache is invalidated
C10_RevealOnAdd ==
    [][(/\ LastOp' \in {"add_known_lit", "add_not_provable_known_lit"}
        /\ pc' # "panicked"
        /\ ~Contains(knownlits, LastLit')
        /\ RevealSources(LastLit') # {}) =>
          /\ \A p \in RevealSources(LastLit') :
                 litmap[reveal_target(p)] \in Range(knownlits')
          /\ tosolvelits' = None]_vars

\* C10 witness: add_known_lit added a positive literal of x in a debug build,
\* where the cache was populated just before
C10_Witness ==
    /\ LastOp = "add_known_lit"
    /\ ~LastArg
    /\ pc = "idle"
    /\ RevealSources(LastLit) # {}
    /\ debug_build
    /\ tosolvelits = None

\* C11: once a positive literal x = v of a VAR is in the known-literal list, for
\* every other value d of the domain of x the literal x != d is in the list
C11_OtherValuesExcluded ==
    \A l \in Known : \A p \in invlitmap[l] :
        (p.equal /\ p.var.name \in eprime_vars) =>
            \A d \in domainmap[p.var] \ {p.val} :
                litmap[PuzLit_new_neq(p.var, d)] \in Known

\* C11 witness: add_known_lit added x[1] = v, a literal that was not known and
\* whose variable has two other values, and returned
C11_Witness ==
    /\ LastOp = "add_known_lit"
    /\ ~LastArg
    /\ pc = "idle"
    /\ \E p \in invlitmap[LastLit] :
           /\ p.equal
           /\ p.var.name \in eprime_vars
           /\ Cardinality(domainmap[p.var] \ {p.val}) = 2
           /\ \A d \in domainmap[p.var] \ {p.val} :
                  litmap[PuzLit_new_neq(p.var, d)] \in Known \ {LastLit}

\* the literals get_provable_varlits may return: the candidates of
\* get_literals_to_try_solving, negated
ProvableCandidates ==
    {Neg(c) : c \in (IF only_assignments THEN varset_lits_neg ELSE varset_lits)}

\* whether lit has a size-0 MUS: it follows from the clause database and the
\* literals of `known` with no CON literal
Size0(known, lit) == ~Sat(known \cup {Neg(lit)})

\* the literals the steps of quick_solve have deduced
StepLits ==
    UNION {UNION {{litmap[p] : p \in solvesteps[i].muses[j][1]} :
                     j \in 1..Len(solvesteps[i].muses)} :
              i \in 1..Len(solvesteps)}

HasMusUpTo(known, lit, size) ==
    \E M \in SUBSET conset_lits :
        Cardinality(M) <= size /\ ~Sat(M \cup known \cup {Neg(lit)})

\* C13: no step of quick_solve has a MUS of size at most skip_small_threshold;
\* a turn of the loop that neither returns nor emits a step is a round whose
\* MUS has at most skip_small_threshold constraints, and it adds the literals of
\* that MUS to the known literals
C13_SmallMusesSkipped ==
    [][(LastOp' = "quick_solve" /\ pc' # "panicked") =>
          /\ \A i \in 1..Len(solvesteps') : \A j \in 1..Len(solvesteps'[i].muses) :
                 Len(solvesteps'[i].muses[j][2]) > planner.config.skip_small_threshold
          /\ (pc' = "quick_solve" /\ Len(solvesteps') = Len(solvesteps)) =>
                 \E l \in Range(knownlits') \ Known :
                     HasMusUpTo(Known, l, planner.config.skip_small_threshold)]_vars

\* C13 witness: under skip_small_threshold = 0 a turn of quick_solve has added
\* literals with a size-0 MUS and emitted no step, and a later turn emitted one
C13_Witness ==
    /\ planner.built
    /\ planner.config.skip_small_threshold = 0
    /\ LastOp = "quick_solve"
    /\ pc = "quick_solve"
    /\ Len(solvesteps) = 1
    /\ \E l \in solvesteps[1].before \ planner.known0 : Size0(planner.known0, l)

\* the MUSes a MusDict holds
DictMuses(md) == UNION {md[l] : l \in DOMAIN md}

\* the least size of a MUS of a MusDict that holds one
MinSize(md) == Min({Cardinality(m) : m \in DictMuses(md)})

\* the MUSes of least size that smallest_muses keeps: for each literal the first
\* one of its entry
FirstSmallest(md) ==
    {m \in {FirstMus(md[l]) : l \in {k \in DOMAIN md : md[k] # {}}} :
        Cardinality(m) = MinSize(md)}

\* C14: smallest_muses_with_config returns MusContexts that all have the least MUS
\* size of the dictionary of the round; when that size is at most
\* merge_small_threshold it returns, merged, the MUSes of that size that are the
\* first of the entry of a literal, and otherwise exactly one MusContext
C14_SmallestMuses ==
    (LastOp = "smallest_muses_with_config" /\ pc # "panicked"
        /\ DictMuses(LastArg) # {}) =>
        /\ \A i \in 1..Len(LastRet) : mus_len(LastRet[i]) = MinSize(LastArg)
        /\ IF MinSize(LastArg) <= planner.config.merge_small_threshold
               THEN /\ {LastRet[i].mus : i \in 1..Len(LastRet)} = FirstSmallest(LastArg)
                    /\ \A i, j \in 1..Len(LastRet) :
                           LastRet[i].mus = LastRet[j].mus => i = j
                    /\ \A i \in 1..Len(LastRet) :
                           LastRet[i].lits =
                               {l \in DOMAIN LastArg : LastArg[l] # {}
                                    /\ FirstMus(LastArg[l]) = LastRet[i].mus}
               ELSE Len(LastRet) = 1

\* C14 as stated: when the least size is at most merge_small_threshold every MUS
\* of that size of the dictionary is returned
C14_AllSmallestOfDict ==
    (LastOp = "smallest_muses_with_config" /\ pc # "panicked"
        /\ DictMuses(LastArg) # {}) =>
        /\ \A i \in 1..Len(LastRet) : mus_len(LastRet[i]) = MinSize(LastArg)
        /\ IF MinSize(LastArg) <= planner.config.merge_small_threshold
               THEN {LastRet[i].mus : i \in 1..Len(LastRet)} =
                        {m \in DictMuses(LastArg) : Cardinality(m) = MinSize(LastArg)}
               ELSE Len(LastRet) = 1

C14_Witness ==
    /\ LastOp = "smallest_muses_with_config"
    /\ pc = "idle"
    /\ DictMuses(LastArg) # {}
    /\ MinSize(LastArg) <= planner.config.merge_small_threshold
    /\ Len(LastRet) >= 1
    /\ \E l \in DOMAIN LastArg : Cardinality(LastArg[l]) >= 2

\* C15: get_all_lits_solved_by_mus(mc) returns a MusContext with the mus of mc and
\* with at least the literals of mc, and the mus, the known literals and the
\* negation of any literal it returns are unsatisfiable together
C15_ExpansionProved ==
    (LastOp = "get_all_lits_solved_by_mus" /\ pc = "idle") =>
        /\ LastRet.mus = LastArg.mus
        /\ LastArg.lits \subseteq LastRet.lits
        /\ \A l \in LastRet.lits : ~Sat(LastArg.mus \cup Known \cup {Neg(l)})

C15_Witness ==
    /\ LastOp = "get_all_lits_solved_by_mus"
    /\ pc = "idle"
    /\ Consistent
    /\ LastArg.mus # {}
    /\ Cardinality(LastRet.lits \ LastArg.lits) >= 2
    /\ \E l \in Undecided : l \notin LastRet.lits

\* C16: add_mus(l, M) makes the entry of l {M} when l has none; otherwise, with s
\* the size of the MUSes stored for l, a smaller M replaces the entry by {M}, an M
\* of size s is added to the entry, and a larger M leaves the dictionary as it
\* is; the entries of the other literals never change
C16_AddMus ==
    [][LastOp' = "add_mus" =>
          /\ DOMAIN mus_dict' = DOMAIN mus_dict \cup {LastLit'}
          /\ \A k \in DOMAIN mus_dict \ {LastLit'} : mus_dict'[k] = mus_dict[k]
          /\ IF LastLit' \notin DOMAIN mus_dict
                 THEN mus_dict'[LastLit'] = {LastArg'}
                 ELSE \A m \in mus_dict[LastLit'] :
                          /\ Cardinality(LastArg') < Cardinality(m) =>
                                 mus_dict'[LastLit'] = {LastArg'}
                          /\ Cardinality(LastArg') = Cardinality(m) =>
                                 mus_dict'[LastLit'] = mus_dict[LastLit'] \cup {LastArg'}
                          /\ Cardinality(LastArg') > Cardinality(m) =>
                                 mus_dict' = mus_dict]_vars

C16_Witness ==
    /\ LastOp = "add_mus"
    /\ DOMAIN mus_dict = DictLits
    /\ mus_dict[LastLit] = {LastArg}
    /\ Cardinality(LastArg) = 0
    /\ \E k \in DOMAIN mus_dict : Cardinality(mus_dict[k]) >= 2

\* C17: merge_muscontexts(list) returns exactly one MusContext for each mus of the
\* list, with the union of the lits of the MusContexts of the list that have
\* that mus; no literal and no mus is lost or invented
C17_MergeMuscontexts ==
    LastOp = "merge_muscontexts" =>
        /\ {LastRet[i].mus : i \in 1..Len(LastRet)} = {mc.mus : mc \in LastArg}
        /\ \A i, j \in 1..Len(LastRet) : LastRet[i].mus = LastRet[j].mus => i = j
        /\ \A i \in 1..Len(LastRet) :
               LastRet[i].lits =
                   UNION {mc.lits : mc \in {c \in LastArg : c.mus = LastRet[i].mus}}

C17_Witness ==
    /\ LastOp = "merge_muscontexts"
    /\ Cardinality(LastArg) = 2
    /\ Len(LastRet) = 1
    /\ Cardinality(LastRet[1].lits) = 2
    /\ \A mc \in LastArg : Cardinality(mc.lits) = 1

\* C18: after every call fix_values(S), whatever was fixed before, the unit
\* literals asserted in the solver on top of the clause database are exactly the
\* literals of S
C18_FixedExactly ==
    /\ LastOp = "quick_mus" => satcore.solver = Range(LastLit[1])
    /\ LastOp = "assumption_solve_with_core" => satcore.solver = {}

\* C18 for the lists that repeat no literal: the literals of S are asserted after
\* fix_values(S), and exactly they when S repeats no literal; `fixed` holds the
\* asserted literals
C18_FixedExactlyUnlessRepeated ==
    /\ LastOp = "quick_mus" =>
           /\ Range(LastLit[1]) \subseteq satcore.solver
           /\ Cardinality(Range(LastLit[1])) = Len(LastLit[1]) =>
                  satcore.solver = Range(LastLit[1])
    /\ LastOp = "assumption_solve_with_core" => satcore.solver = {}
    /\ satcore.solver = satcore.fixed

\* C19: the answer of an operation of SatCore, SAT or UNSAT, none or some core,
\* depends only on the clause database and on the arguments of the call: it is
\* the answer of a SatCore that was just built
C19_Stateless ==
    (LastOp \in SatCoreOps /\ pc = "idle" /\ ~LastRet.err) =>
        CASE LastOp = "assumption_solve" -> LastRet.some = Sat(Range(LastLit[1]))
          [] LastOp = "assumption_solve_solution" ->
                 LastRet.some = Sat(Range(LastLit[1]))
          [] LastOp = "assumption_solve_with_core" ->
                 LastRet.some = ~Sat(Range(LastLit[1]))
          [] LastOp = "quick_mus" ->
                 \E r \in quick_mus(LastLit[1], LastLit[2], LastLit[3]) :
                     r.some = LastRet.some

\* C20: when the solver stops because its conflict budget is exhausted, the
\* operation of SatCore in progress returns SearchError::Limit
C20_LimitSurfaced ==
    (LastOp \in SatCoreOps /\ LastArg.solve = "Interrupted") =>
        pc = "idle" /\ LastRet = Limit

C20_Witness ==
    /\ LastOp = "quick_mus"
    /\ LastArg.solve = "Interrupted"
    /\ LastArg.i >= 2
    /\ LastRet = Limit

\* C21: once more solves than the threshold have hit the conflict limit, the
\* conflict budget has been multiplied by 10, and every later solve runs with the
\* increased budget
C21_BudgetRaised ==
    (LastOp = "do_solve_assumps" /\ LastLit > COUNT_THRESHOLD + 1) =>
        LastArg >= 10 * 1000

\* C22: on a currently solvable puzzle a MUS finder called with a size cap k
\* returns none or a set of at most k CON literals
C22_MusWithinCap ==
    (LastOp \in MusOps /\ LastArg.some /\ Consistent /\ LastRet.some) =>
        /\ LastRet.val \subseteq conset_lits
        /\ Cardinality(LastRet.val) <= LastArg.val

\* C22 witness: with the cap 1 get_var_mus_quick returns none for a literal that has MUSes,
\* all of them of two constraints or more
C22_Witness ==
    /\ LastOp = "get_var_mus_quick"
    /\ LastArg = Some(1)
    /\ Consistent
    /\ LastRet = OkNone
    /\ Deducible(knownlits, LastLit)
    /\ \A c \in conset_lits : Sat({c} \cup Known \cup {Neg(LastLit)})

-----------------------------------------------------------------------------
(* get_var_mus_cake on a puzzle with six constraints *)

InitCake == InitOneKnown({"cake"})

NextCake == GetVarMusCake

SpecCake == InitCake /\ [][NextCake]_vars

\* the sets of CON literals that are unsatisfiable with the known literals and
\* the negation of lit
ConCores(lit) == {M \in SUBSET conset_lits : ~Sat(M \cup Known \cup {Neg(lit)})}

\* the MUSes of lit: the minimal ones
ConMuses(lit) == {M \in ConCores(lit) : \A N \in ConCores(lit) : ~(N \subseteq M /\ N # M)}

-----------------------------------------------------------------------------
(* get_var_mus_size_1 *)

\* the singletons {c}, c a CON literal that is unsatisfiable with the known
\* literals and the negation of lit
TinyMuses(lit) == {{c} : c \in {d \in conset_lits : ~Sat({d} \cup Known \cup {Neg(lit)})}}

\* the MUSes of size 1 that get_var_mus_quick, get_var_mus_slice or
\* get_var_mus_cake may return for lit
OtherTinyMuses(lit) ==
    {r.val : r \in {q \in get_var_mus_quick(SolverState, lit, None)
                          \cup get_var_mus_slice(SolverState, lit, None)
                          \cup get_var_mus_cake(SolverState, lit, MaxMusSize) :
                        q.some /\ Cardinality(q.val) = 1}}

\* get_var_mus_size_1 returned exactly the singleton MUSes of lit, each once
ReturnsTinyMuses ==
    /\ LastRet.status = "ok"
    /\ Range(LastRet.val) = TinyMuses(LastLit)
    /\ Len(LastRet.val) = Cardinality(TinyMuses(LastLit))
    /\ OtherTinyMuses(LastLit) \subseteq Range(LastRet.val)

C25_EntailedGivesEmptyMus ==
    (/\ LastOp \in {"get_var_mus_size_1", "get_var_mus_size_1_lib"}
     /\ ~Sat(Known \cup {Neg(LastLit)})
     /\ LastRet # SzLimit) => LastRet = SzOk(<<{}>>)

\* C25 for the copy of src/demystify alone
C25_EntailedGivesEmptyMusInSolver ==
    (/\ LastOp = "get_var_mus_size_1"
     /\ ~Sat(Known \cup {Neg(LastLit)})
     /\ LastRet # SzLimit) => LastRet = SzOk(<<{}>>)

-----------------------------------------------------------------------------
(* get_many_vars_small_mus_quick *)

\* the literals the scan for tiny muses found a MUS for
ScanFound == {f[1] : f \in LastArg.scan.found}

TinyFindable ==
    {l \in LastLit : ~Sat(Known \cup {Neg(l)}) \/ TinyMuses(l) # {}}

\* the driver returned a dictionary in which at most as many literals go without
\* their entry as probes of the scan hit the limit, every entry a MUS of a
\* literal of lits
LimitSkipped ==
    /\ ~LastRet.panic
    /\ Cardinality(TinyFindable \ DOMAIN LastRet.md) <= MaxLimits - LastArg.scan.budget
    /\ \A l \in DOMAIN LastRet.md :
           /\ l \in LastLit
           /\ \A m \in LastRet.md[l] :
                  m \subseteq conset_lits /\ ~Sat(m \cup Known \cup {Neg(l)})

-----------------------------------------------------------------------------
(* One round of the small-MUS driver's parallel probes *)

\* every probe of the round has finished
RoundDone == LastOp = "round" /\ \A i \in DOMAIN LastRet : LastRet[i].at = "done"

\* the sizes of the MUSes the probes of the round have found
RoundFoundSizes ==
    {LastRet[i].ret.val :
        i \in {j \in DOMAIN LastRet : LastRet[j].at = "done" /\ LastRet[j].ret.some}}

\* C28: within one round, under every interleaving of the probes, best_mus_size
\* never increases, and when the round ends it is the minimum of the round's
\* mus_size and the sizes of the MUSes found in the round
C28_BestOnlyFalls ==
    [][/\ (LastOp = "round") => (LastArg.best' <= LastArg.best)
       /\ RoundDone' => (LastArg.best' = Min({LastLit'} \cup RoundFoundSizes'))]_vars

\* C28 witness: a finished round in which both probes had loaded the round's
\* mus_size and one found a MUS larger than the best of the round
C28_Witness ==
    /\ RoundDone
    /\ \A i \in DOMAIN LastRet : LastRet[i].t = LastLit
    /\ LastArg.best < LastLit
    /\ \E i \in DOMAIN LastRet :
           LastRet[i].ret.some /\ LastRet[i].ret.val > LastArg.best

-----------------------------------------------------------------------------
(* PuzzleParse::finalise *)

\* the litmap holds no negation yet, as read_dimacs leaves it
ReadEqOnly == \A p \in DOMAIN LastArg : p.equal

\* C29: after a successful compilation the litmap holds, for every literal P,
\* the negation of P mapped to the negation of P's SAT literal; compilation
\* fails when the input maps P and its negation to SAT literals that are not
\* negations of each other
C29_NegationsPaired ==
    (LastOp = "finalise") =>
        /\ LastRet.some =>
               \A p \in DOMAIN LastRet.val.litmap :
                   /\ PuzLit_neg(p) \in DOMAIN LastRet.val.litmap
                   /\ LastRet.val.litmap[PuzLit_neg(p)] = Neg(LastRet.val.litmap[p])
        /\ (\E p \in DOMAIN LastArg :
                PuzLit_neg(p) \in DOMAIN LastArg
                /\ LastArg[PuzLit_neg(p)] # Neg(LastArg[p])) => ~LastRet.some

\* C29 witness: a compilation succeeds on a litmap of five literals, none a
\* negation, and the litmap has ten
C29_Witness ==
    /\ LastOp = "finalise"
    /\ ReadEqOnly
    /\ Cardinality(DOMAIN LastArg) = Cardinality(ParseKeys) - 1
    /\ LastRet.some
    /\ Cardinality(DOMAIN LastRet.val.litmap) = 2 * Cardinality(DOMAIN LastArg)

\* the VAR, CON and AUX literals of the compiled puzzle are pairwise disjoint
RolesDisjoint ==
    /\ LastRet.val.varset_lits \cap LastRet.val.conset_lits = {}
    /\ LastRet.val.varset_lits \cap LastRet.val.auxset_lits = {}
    /\ LastRet.val.conset_lits \cap LastRet.val.auxset_lits = {}

\* C30: after a successful compilation the sets of VAR literals, CON literals
\* and AUX literals are pairwise disjoint
C30_RolesDisjoint ==
    (LastOp = "finalise" /\ ReadEqOnly /\ LastRet.some) => RolesDisjoint

\* C30 amended: after a successful compilation of an input that maps literals
\* of different variable names to different SAT variables, the sets of VAR
\* literals, CON literals and AUX literals are pairwise disjoint
C30_RolesDisjointUnlessShared ==
    (/\ LastOp = "finalise"
     /\ ReadEqOnly
     /\ LastRet.some
     /\ \A p, q \in DOMAIN LastArg :
            p.var.name # q.var.name => Abs(LastArg[p]) # Abs(LastArg[q])) => RolesDisjoint

\* C30 witness: a compilation succeeds with literals in each of the three roles
\* on three SAT variables
C30_Witness ==
    /\ LastOp = "finalise"
    /\ ReadEqOnly
    /\ LastRet.some
    /\ LastRet.val.varset_lits # {}
    /\ LastRet.val.conset_lits # {}
    /\ LastRet.val.auxset_lits # {}
    /\ RolesDisjoint

\* the SAT variables of a set of literals
VarsOf(lits) == {Abs(l) : l \in lits}

\* the clauses of more than one literal
NonUnit(cnf) == {cl \in cnf : Cardinality(cl) > 1}

RECURSIVE CoOccurReach(_, _, _)
\* the SAT variables reached from the variables `seen` through co-occurrence in
\* non-unit clauses, going on only through variables that are not VAR variables
CoOccurReach(cnf, varvars, seen) ==
    LET new == VarsOf(UNION {cl \in NonUnit(cnf) :
                                VarsOf(cl) \cap (seen \ varvars) # {}}) \ seen
    IN IF new = {} THEN seen ELSE CoOccurReach(cnf, varvars, seen \cup new)

\* the VAR variables reachable from the CON literal of the last call
ReachableVars ==
    CoOccurReach(LastArg.cnf, VarsOf(LastArg.all_var_lits), {Abs(LastLit)})
        \cap VarsOf(LastArg.all_var_lits)

\* every literal that occurs, its negation included, is a literal of a unit
\* clause only or of non-unit clauses only
UnitsApart ==
    \A l \in UnitLits(LastArg.cnf) :
        {l, Neg(l)} \cap UNION NonUnit(LastArg.cnf) = {}

\* every literal of a non-unit clause that is not a VAR literal occurs negated
\* in some clause, and so does the CON literal
BothPolarities ==
    /\ \A l \in (UNION NonUnit(LastArg.cnf)) \ LastArg.all_var_lits :
          Abs(l) # Abs(LastLit) => Neg(l) \in UNION LastArg.cnf
    /\ Neg(LastLit) \in UNION LastArg.cnf

\* C31: the scope of a CON literal c holds exactly the VAR variables reachable
\* from c or its negation through co-occurrence in non-unit clauses, the search
\* going on only through literals that are not VAR literals
C31_ScopeIsReachable ==
    LastOp = "get_connections" => VarsOf(LastRet) = ReachableVars

\* C31 as the code has it: the scope lies within the reachable VAR variables; it
\* is empty when c or its negation is the literal of a unit clause; and it is
\* the whole reachable set when the negation of c occurs in a clause, every
\* literal met that is not a VAR literal occurs negated as well, and no literal
\* of a unit clause or its negation occurs in a non-unit clause
C31_ScopeWithinReachable ==
    LastOp = "get_connections" =>
        /\ VarsOf(LastRet) \subseteq ReachableVars
        /\ {LastLit, Neg(LastLit)} \cap UnitLits(LastArg.cnf) # {} => LastRet = {}
        /\ UnitsApart /\ BothPolarities => VarsOf(LastRet) = ReachableVars

\* a VAR literal is found through an auxiliary literal
C31_Witness ==
    /\ LastOp = "get_connections"
    /\ UnitsApart /\ BothPolarities
    /\ LastRet # {}
    /\ \A cl \in LastArg.cnf : VarsOf(cl) # VarsOf({LastLit} \cup LastRet)

\* the PuzLits `variable = value` of the VARs
PositiveAssignments == {p \in DOMAIN litmap : p.equal /\ p.var.name \in eprime_vars}

\* what get_provable_varlits computes in default mode for the known literals
DefaultProvable == provable_of(SolverState, literals_to_try_solving(FALSE, SolverState))

\* the solver when only the first k of its known literals were known
SolverAt(k) ==
    [knownlits |-> SubSeq(knownlits, 1, k), tosolvelits |-> None, panicked |-> FALSE]

\* what a solver of mode oa returns now when it filled its cache with k known
\* literals: add_known_lit_internal takes every literal added since out of it
CachedSince(oa, k) ==
    provable_of(SolverAt(k), literals_to_try_solving(oa, SolverAt(k))) \ Known

\* C32: in only-assignments mode every literal get_provable_varlits returns is
\* the SAT literal of an assignment variable = value of a VAR, and the set
\* returned is a subset of the set returned in default mode for the same known
\* literals: of the set a default-mode solver holds that filled its cache at
\* the same point, and, when the puzzle with the known literals has a
\* solution, of the set the default mode computes anew
C32_OnlyAssignmentsNarrower ==
    (only_assignments /\ pc = "idle" /\ LastOp = "get_provable_varlits") =>
        /\ \A l \in LastRet : \E p \in PositiveAssignments : litmap[p] = l
        /\ \E k \in 0..Len(knownlits) :
              /\ LastRet = CachedSince(TRUE, k)
              /\ LastRet \subseteq CachedSince(FALSE, k)
        /\ Consistent => LastRet \subseteq DefaultProvable

\* C32 witness: in only-assignments mode, after additions, get_provable_varlits
\* returned fewer literals than the default mode computes
C32_Witness ==
    /\ only_assignments
    /\ pc = "idle"
    /\ LastOp = "get_provable_varlits"
    /\ Len(knownlits) > 0
    /\ LastRet # {}
    /\ LastRet # DefaultProvable

\* get_varlits_provable_by_mus applied to every provable literal and the
\* MusContext of the last call
ProvableByLastMus ==
    get_varlits_provable_by_mus(SolverState,
                                get_provable_varlits(SolverState).tosolvelits.val,
                                LastArg)

\* C33: for the MUS of a provable literal, get_all_lits_solved_by_mus(mc), which
\* tests the provable literals of the variables in the scope of the constraints
\* of mc only, returns the literals that get_varlits_provable_by_mus finds among
\* all provable literals (stated for the states where the puzzle with the known
\* literals has a solution, where the provable literals are the cache exactly)
C33_ScopeLosesNothing ==
    (/\ LastOp = "get_all_lits_solved_by_mus"
     /\ pc = "idle"
     /\ Consistent
     /\ LastArg.lits \subseteq tosolvelits.val) =>
        LastRet.lits = ProvableByLastMus

\* C34: quick_solve never panics; every turn of its loop that does not return
\* adds at least one known literal (so the loop ends, the literals being
\* finitely many); and when it returns no literal is provable
C34_QuickSolveProgress ==
    [][(LastOp' = "quick_solve" /\ pc \in {"idle", "quick_solve"}) =>
          /\ pc' # "panicked"
          /\ pc' = "quick_solve" => \E l \in Range(knownlits') : l \notin Known
          /\ pc' = "idle" => tosolvelits'.some /\ tosolvelits'.val = {}]_vars

\* the steps of a MusConfig make the target size of the driver grow from every
\* round to the next
Growing(config) ==
    /\ config.base_size_mus >= 0
    /\ config.mus_add_step >= 0
    /\ config.mus_mult_step >= 1
    /\ config.mus_add_step >= 1 \/ (config.mus_mult_step >= 2 /\ config.base_size_mus >= 1)

\* the driver has returned
DriverReturned == LastOp = "driver_round" /\ LastRet

\* the target size b is larger than the target size a
LargerSize(a, b) == (b.over /\ ~a.over) \/ (~b.over /\ ~a.over /\ b.val > a.val)

SmallestOfPairs(pairs) ==
    [l \in {p[1] : p \in pairs} |->
        {p[2] : p \in {q \in pairs :
                          /\ q[1] = l
                          /\ \A o \in pairs :
                                o[1] = l => Cardinality(q[2]) <= Cardinality(o[2])}}]

\* C36: the dictionary that results from adding a collection of pairs
\* (literal, MUS) with add_mus does not depend on the order in which the pairs are
\* added: for each literal it holds exactly the added MUSes of minimum size for
\* that literal
C36_OrderIndependent ==
    LastOp = "add_pairs" => mus_dict = SmallestOfPairs(LastArg)

\* a literal was given MUSes of two sizes, and the dictionary holds two MUSes for
\* a literal
C36_Witness ==
    /\ LastOp = "add_pairs"
    /\ \E p \in LastArg, q \in LastArg :
           p[1] = q[1] /\ Cardinality(p[2]) < Cardinality(q[2])
    /\ \E l \in DOMAIN mus_dict : Cardinality(mus_dict[l]) > 1

\* the entries of the steps of quick_solve, by step and place in the step
StepEntries ==
    UNION {{<<i, j>> : j \in 1..Len(solvesteps[i].muses)} : i \in 1..Len(solvesteps)}

\* the SAT literals the entry e of the steps deduces
EntryLits(e) == {litmap[p] : p \in solvesteps[e[1]].muses[e[2]][1]}

\* C37: every entry of every step of quick_solve deduces at least one literal,
\* and no SAT literal is deduced by more than one entry of the whole output
C37_EntriesDeduceOnce ==
    pc # "panicked" =>
        /\ \A e \in StepEntries : EntryLits(e) # {}
        /\ \A e \in StepEntries, f \in StepEntries :
               e # f => EntryLits(e) \cap EntryLits(f) = {}

\* quick_solve has returned steps with entries in two steps, and a step with two
\* entries
C37_Witness ==
    /\ pc = "idle"
    /\ LastOp = "quick_solve"
    /\ LastRet
    /\ \E e \in StepEntries, f \in StepEntries : e[1] # f[1]
    /\ \E e \in StepEntries, f \in StepEntries : e[1] = f[1] /\ e[2] # f[2]

\* C38: get_var_mus_size_1 never panics: whenever the solver returns an unsat core
\* of exactly two literals during the bisection, exactly one of the two is a CON
\* literal of the probed subset
C38_BisectionNeverPanics ==
    LastOp \in {"get_var_mus_size_1", "get_var_mus_size_1_lib"} => LastRet # SzPanic

\* C39: for every successfully compiled model, adding any positive literal of a
\* REVEAL source variable as known succeeds: the corresponding reveal-target
\* literal exists in the literal map, so add_known_lit never panics with a
\* missing REVEAL variable
C39_RevealTargetExists ==
    /\ (LastOp = "compiled" /\ LastRet.some) =>
           \A p \in DOMAIN LastRet.val.litmap :
               (p.equal /\ p.var.name \in DOMAIN RevealEprime.reveal) =>
                   reveal_target_in(RevealEprime.reveal, p) \in DOMAIN LastRet.val.litmap
    /\ LastOp = "add_known_lit_internal" => ~LastRet.panicked

====
